---- MODULE Spec2Model ----
(***************************************************************************)
(* Model of Backend/backend.py: the response cache shared by the request   *)
(* handlers (Spec) and the health-center search with its fallback stages   *)
(* and ranking (SearchSpec).                                               *)
(*                                                                         *)
(* Conventions.  Python text that is searched by substring is a tuple of   *)
(* one-character strings; Str turns it into the string that is hashed.     *)
(* None is the string "None".  Time is in seconds.                         *)
(***************************************************************************)
EXTENDS Integers, Sequences, FiniteSets, TLC

None == "None"

\* An optional number is <<>> (None) or <<n>>; coordinates are in units of
\* 0.00001 degree.
NoNumber == <<>>

(***************************************************************************)
(* Text helpers: str.lower, str.strip, `k in s`, and the text of a tuple.  *)
(***************************************************************************)
UpperCase == <<"A","B","C","D","E","F","G","H","I","J","K","L","M",
               "N","O","P","Q","R","S","T","U","V","W","X","Y","Z">>

LowerCase == <<"a","b","c","d","e","f","g","h","i","j","k","l","m",
               "n","o","p","q","r","s","t","u","v","w","x","y","z">>

LowerChar(c) ==
    IF \E i \in 1..26 : UpperCase[i] = c
    THEN LowerCase[CHOOSE i \in 1..26 : UpperCase[i] = c]
    ELSE c

Lower(s) == [i \in 1..Len(s) |-> LowerChar(s[i])]

RECURSIVE Strip(_)
Strip(s) ==
    IF s = <<>> THEN s
    ELSE IF Head(s) = " " THEN Strip(Tail(s))
    ELSE IF s[Len(s)] = " " THEN Strip(SubSeq(s, 1, Len(s) - 1))
    ELSE s

RECURSIVE Str(_)
Str(s) == IF s = <<>> THEN "" ELSE Head(s) \o Str(Tail(s))

\* Python `k in s` for texts: k occurs in s as a contiguous run.
Contains(s, k) ==
    \E i \in 1..(Len(s) - Len(k) + 1) : SubSeq(s, i, i + Len(k) - 1) = k

AnyIn(keywords, s) == \E j \in 1..Len(keywords) : Contains(s, keywords[j])

healthcare_keywords ==
    << <<"h","e","a","l","t","h">>,
       <<"m","e","d","i","c","a","l">>,
       <<"s","y","m","p","t","o","m">>,
       <<"d","i","s","e","a","s","e">>,
       <<"i","l","l","n","e","s","s">>,
       <<"p","a","i","n">>,
       <<"f","e","v","e","r">>,
       <<"h","e","a","d","a","c","h","e">>,
       <<"c","o","u","g","h">>,
       <<"c","o","l","d">>,
       <<"f","l","u">>,
       <<"i","n","f","e","c","t","i","o","n">>,
       <<"m","e","d","i","c","i","n","e">>,
       <<"t","r","e","a","t","m","e","n","t">>,
       <<"d","o","c","t","o","r">>,
       <<"h","o","s","p","i","t","a","l">>,
       <<"m","e","d","i","c","a","t","i","o","n">>,
       <<"t","h","e","r","a","p","y">>,
       <<"d","i","a","g","n","o","s","i","s">>,
       <<"w","e","l","l","n","e","s","s">>,
       <<"f","i","t","n","e","s","s">>,
       <<"n","u","t","r","i","t","i","o","n">>,
       <<"d","i","e","t">>,
       <<"e","x","e","r","c","i","s","e">>,
       <<"m","e","n","t","a","l"," ","h","e","a","l","t","h">>,
       <<"d","e","p","r","e","s","s","i","o","n">>,
       <<"a","n","x","i","e","t","y">>,
       <<"s","t","r","e","s","s">>,
       <<"s","l","e","e","p">>,
       <<"f","a","t","i","g","u","e">>,
       <<"i","n","j","u","r","y">>,
       <<"w","o","u","n","d">>,
       <<"b","l","e","e","d","i","n","g">>,
       <<"n","a","u","s","e","a">>,
       <<"v","o","m","i","t","i","n","g">>,
       <<"d","i","a","r","r","h","e","a">>,
       <<"c","o","n","s","t","i","p","a","t","i","o","n">>,
       <<"d","i","a","b","e","t","e","s">>,
       <<"h","y","p","e","r","t","e","n","s","i","o","n">>,
       <<"b","l","o","o","d"," ","p","r","e","s","s","u","r","e">>,
       <<"h","e","a","r","t">>,
       <<"l","u","n","g">>,
       <<"k","i","d","n","e","y">>,
       <<"l","i","v","e","r">>,
       <<"s","t","o","m","a","c","h">>,
       <<"s","k","i","n">>,
       <<"a","l","l","e","r","g","y">>,
       <<"a","s","t","h","m","a">>,
       <<"c","a","n","c","e","r">>,
       <<"p","r","e","g","n","a","n","c","y">>,
       <<"c","h","i","l","d">>,
       <<"e","l","d","e","r","l","y">>,
       <<"v","a","c","c","i","n","a","t","i","o","n">>,
       <<"i","m","m","u","n","i","z","a","t","i","o","n">>,
       <<"p","r","e","v","e","n","t","i","o","n">>,
       <<"h","y","g","i","e","n","e">>,
       <<"s","a","n","i","t","a","t","i","o","n">>,
       <<"c","o","v","i","d">>,
       <<"c","o","r","o","n","a","v","i","r","u","s">>,
       <<"v","a","c","c","i","n","e">>,
       <<"m","a","s","k">>,
       <<"s","a","n","i","t","i","z","e","r">>,
       <<"q","u","a","r","a","n","t","i","n","e">>,
       <<"i","s","o","l","a","t","i","o","n">> >>

location_keywords ==
    << <<"n","e","a","r"," ","m","e">>,
       <<"n","e","a","r","b","y">>,
       <<"c","l","o","s","e"," ","t","o"," ","m","e">>,
       <<"i","n"," ","m","y"," ","a","r","e","a">>,
       <<"a","r","o","u","n","d"," ","m","e">>,
       <<"n","e","a","r","e","s","t">> >>

hospital_keywords ==
    << <<"h","o","s","p","i","t","a","l">>,
       <<"c","l","i","n","i","c">>,
       <<"d","o","c","t","o","r">>,
       <<"m","e","d","i","c","a","l"," ","c","e","n","t","e","r">>,
       <<"h","e","a","l","t","h"," ","c","e","n","t","e","r">> >>

appointment_keywords ==
    << <<"b","o","o","k">>,
       <<"a","p","p","o","i","n","t","m","e","n","t">>,
       <<"s","c","h","e","d","u","l","e">>,
       <<"v","i","s","i","t">>,
       <<"c","o","n","s","u","l","t","a","t","i","o","n">> >>

(***************************************************************************)
(* Bounds of the model.                                                    *)
(***************************************************************************)
MaxRequests == 2
MaxTime == 3600

\* Two handlers can be in progress at once.
Procs == {1, 2}

\* Instants at which time.time() is read: both sides of each duration.
TimePoints == {t \in {0, 1, 300, 3600, 3601} : t <= MaxTime}

\* Payloads a computation can produce (an answer, a news text, a result).
Values == {"r1", "r2"}

(***************************************************************************)
(* Request inputs.                                                         *)
(***************************************************************************)
Q_fever == <<"f","e","v","e","r">>
Q_book == <<"b","o","o","k"," ","f","e","v","e","r">>
Q_hello == <<"H","e","l","l","o">>
Q_near == <<"d","o","c","t","o","r"," ","n","e","a","r","b","y">>
Q_fever_nearby == <<"f","e","v","e","r"," ","n","e","a","r","b","y">>
T_heart == <<"h","e","a","r","t">>
T_Chennai == <<"C","h","e","n","n","a","i">>

Questions == {Q_fever, Q_book, Q_near, Q_hello, <<>>}

\* The questions of the specification of /ask alone.
AskQuestions == Questions \cup {Q_fever_nearby}

Languages == {"English", ""}

HospitalInputs ==
    { [condition |-> T_heart, location |-> T_Chennai, specialty |-> <<>>,
       latitude |-> NoNumber, longitude |-> NoNumber],
      [condition |-> T_heart, location |-> <<" ">>, specialty |-> <<>>,
       latitude |-> NoNumber, longitude |-> NoNumber],
      [condition |-> T_heart, location |-> T_Chennai, specialty |-> <<>>,
       latitude |-> <<9100000>>, longitude |-> <<8027070>>] }

(***************************************************************************)
(* The response cache.                                                     *)
(***************************************************************************)
CACHE_DURATION == 3600
NEWS_CACHE_DURATION == 300

\* hashlib.md5(text.encode()).hexdigest() on the texts of the model.
MD5(text) ==
    CASE text = "fever" -> "6c1562051db6c994bf5b6db8afe5605e"
      [] text = "book fever" -> "b61b1189cb2401653c74ab12fbd55363"
      [] text = "doctor nearby" -> "e97a4d33722be95038fe4e013ec9e60a"
      [] text = "English" -> "78463a384a5aa4fad5fa73e2f506ecfc"
      [] text = "Hello" -> "8b1a9953c4611296a827abf8c47804d7"
      [] text = "fever nearby" -> "9da73d636c28334fa297ea2082ea326b"
      [] text = "heart_Chennai__None_None" -> "7cca7c6ab9151efb13446517836346cd"
      [] text = "heart_Chennai_Apollo__None_None" -> "9e61606298e5f8f9ed76a087dea4a317"
      [] text = "heart_Chennai__12.9716_77.5946" -> "06bf569a73151bad029194362f881853"
      [] text = "heart_Chennai_Cardiology_None_None" -> "b863ca32f7e4d0abe04b40b5bcb5a48c"
      [] text = "heart_Chennai_Cardiology_12.9716_77.5946" -> "7313ab1b2507cea60990e997691a5668"
      [] text = "heart_Delhi__None_None" -> "f69cfdcb15a9c9fff839cd68cf019ee2"
      [] text = "heart_Delhi__12.9716_77.5946" -> "22fcf1e29191fd05d221a8b2f4f73fe2"
      [] text = "heart_Delhi_Cardiology_None_None" -> "727d0774a8db45040da0900116e96c23"
      [] text = "heart_Delhi_Cardiology_12.9716_77.5946" -> "774baac1b82d791a7ebfbef5936420df"
      [] text = "heart_Pune__None_None" -> "e529d103a18802d9f4a2876dfafef6fe"
      [] text = "heart_Pune__12.9716_77.5946" -> "3d9c49b8cea394dc12bc91b871535362"
      [] text = "heart_Pune_Cardiology_None_None" -> "bebf1afbf2cb6feaa706fd0b15a6543c"
      [] text = "heart_Pune_Cardiology_12.9716_77.5946" -> "4c41d3bd8f9acfb140ebbd9ecdf3af49"
      [] text = "heart_tamil nadu__None_None" -> "8afe88b55c54c739be03225edd175273"
      [] text = "heart_tamil nadu__12.9716_77.5946" -> "3e425172379fd1aadf4a6dac5ab1c3a1"
      [] text = "heart_tamil nadu_Cardiology_None_None" -> "67b5bf4d4a045369813d3d34d5bd4dea"
      [] text = "heart_tamil nadu_Cardiology_12.9716_77.5946" -> "58e7c253bbaad8bdce8b570799d46d48"
      [] text = "chest pain_Chennai__None_None" -> "630c51693cbe7fdf0b17ebe539984f48"
      [] text = "chest pain_Chennai__12.9716_77.5946" -> "d8cb93965f0d0d3534bbc6c4352116fa"
      [] text = "chest pain_Chennai_Cardiology_None_None" -> "89ea25fc7f936636e7f60e146c454b58"
      [] text = "chest pain_Chennai_Cardiology_12.9716_77.5946" -> "d85c774206688a2459125f5a0db11ff7"
      [] text = "chest pain_Delhi__None_None" -> "19190e80c68afc02c5c26977cae73a83"
      [] text = "chest pain_Delhi__12.9716_77.5946" -> "251c6431028d8e88ccf1887354eaeba8"
      [] text = "chest pain_Delhi_Cardiology_None_None" -> "2c00e932221ab471f7d1353e25a38b6b"
      [] text = "chest pain_Delhi_Cardiology_12.9716_77.5946" -> "9dd01a9190392a520320aadb24c90b0f"
      [] text = "chest pain_Pune__None_None" -> "268738698d8f0c543e635e88093836a7"
      [] text = "chest pain_Pune__12.9716_77.5946" -> "ad6775df1463642999705e47ac465b02"
      [] text = "chest pain_Pune_Cardiology_None_None" -> "bd527ea81e0950339f328b153c509d59"
      [] text = "chest pain_Pune_Cardiology_12.9716_77.5946" -> "7d69ca45b9df6f859131025d60a2d13f"
      [] text = "chest pain_tamil nadu__None_None" -> "6ff198b9c5ef42d2371bef0620f0835c"
      [] text = "chest pain_tamil nadu__12.9716_77.5946" -> "4ba4005b3bb96b425d273f34c5dd68cb"
      [] text = "chest pain_tamil nadu_Cardiology_None_None" -> "8bdbf2476b0076d434abae3d730245ea"
      [] text = "chest pain_tamil nadu_Cardiology_12.9716_77.5946" -> "35f4358ceb5421f8ae1d6ed0b74e0f6c"
      [] text = "fever_Chennai__None_None" -> "46f9c376992ec7b0eabf1f364cdaafd9"
      [] text = "fever_Chennai__12.9716_77.5946" -> "483653a489544846e33e3edd5526d7a9"
      [] text = "fever_Chennai_Cardiology_None_None" -> "922ac070edb98338d969d7d726a63920"
      [] text = "fever_Chennai_Cardiology_12.9716_77.5946" -> "8818a2f4ae66e4061966d31c1ccb6050"
      [] text = "fever_Delhi__None_None" -> "e6b786963104899b2d6034a6e34a8a4d"
      [] text = "fever_Delhi__12.9716_77.5946" -> "e51d67b809384c23172dea74c15a8fc9"
      [] text = "fever_Delhi_Cardiology_None_None" -> "e21eb46a46c202d1c079c6df2b6ae263"
      [] text = "fever_Delhi_Cardiology_12.9716_77.5946" -> "058236fe90f0fca56ba89e9d3c87163f"
      [] text = "fever_Pune__None_None" -> "5109d5cac8ca76b88b523bac94ca6e84"
      [] text = "fever_Pune__12.9716_77.5946" -> "a7f44878bb4290674f78599a44d5a4f2"
      [] text = "fever_Pune_Cardiology_None_None" -> "ec02e7c5dd8232de4d4b213b160369f1"
      [] text = "fever_Pune_Cardiology_12.9716_77.5946" -> "ff8bd7505606988dbc4f6de58e039700"
      [] text = "fever_tamil nadu__None_None" -> "901a8a104255fe849fa7216f6ea59a5d"
      [] text = "fever_tamil nadu__12.9716_77.5946" -> "9f3389cb9c8ddb21adccf8ed71d8457c"
      [] text = "fever_tamil nadu_Cardiology_None_None" -> "a4a270ea99aa5c4ee740359204e7abed"
      [] text = "fever_tamil nadu_Cardiology_12.9716_77.5946" -> "6dc3b3282d63ab492337779692721be9"
      [] text = "skin_Chennai__None_None" -> "bff44c4f6f71b14560c23cc71ef3de0a"
      [] text = "skin_Chennai__12.9716_77.5946" -> "67012600d0e6908d8d04196e7204ec6b"
      [] text = "skin_Chennai_Cardiology_None_None" -> "ad999390f06092308add0e784fe1b3c2"
      [] text = "skin_Chennai_Cardiology_12.9716_77.5946" -> "6149e349081cb73377d0c3f4226e350a"
      [] text = "skin_Delhi__None_None" -> "7f1a1ec80d540b1204b94b55f27528de"
      [] text = "skin_Delhi__12.9716_77.5946" -> "4de314d3b4062212174bd126bce5f6b2"
      [] text = "skin_Delhi_Cardiology_None_None" -> "6a5184a468db3fcbea7b16e9650d6344"
      [] text = "skin_Delhi_Cardiology_12.9716_77.5946" -> "a3ad43be04dab43721db3d8c2b07ede7"
      [] text = "skin_Pune__None_None" -> "5942dd44be1ca4777925071c94cd0636"
      [] text = "skin_Pune__12.9716_77.5946" -> "a7a2c8e64551120ed19e61d7df145944"
      [] text = "skin_Pune_Cardiology_None_None" -> "1674b53ef683c0aedea237204dcc004b"
      [] text = "skin_Pune_Cardiology_12.9716_77.5946" -> "12ee6ac70e495b8917b5d21fc2a52df2"
      [] text = "skin_tamil nadu__None_None" -> "0f584d961ee6e118bb3752b44e0103fc"
      [] text = "skin_tamil nadu__12.9716_77.5946" -> "3b959f3c5c5520b5405ce598e3ecbd24"
      [] text = "skin_tamil nadu_Cardiology_None_None" -> "929d147c77d0b8063de452e268562615"
      [] text = "skin_tamil nadu_Cardiology_12.9716_77.5946" -> "b4f8a99a184e684d1c62f05666538db4"
      [] text = "heart_Chennai__0_77.5946" -> "dc4593e5162f1fc4900cb5a66dd4ae8e"
      [] text = "heart_Chennai_Cardiology_0_77.5946" -> "7d13dce565adb6b332c8395a45364f5f"
      [] text = "heart_Delhi__0_77.5946" -> "e76dc6c040118c2226f7d652446bd8cc"
      [] text = "heart_Delhi_Cardiology_0_77.5946" -> "3971e5e2780351e4fcebf19671415355"
      [] text = "heart_Pune__0_77.5946" -> "28bf092beba8cf8879469348cac8013a"
      [] text = "heart_Pune_Cardiology_0_77.5946" -> "af3384151800cc81988832b3e3bd5ba9"
      [] text = "heart_tamil nadu__0_77.5946" -> "61ddaba42fa6dc3884b29667b5d0e78c"
      [] text = "heart_tamil nadu_Cardiology_0_77.5946" -> "4494b9ecb9c778c6f873196cdff6ea84"
      [] text = "chest pain_Chennai__0_77.5946" -> "9b7cfbf0a8a1a688240febac1ffee4b4"
      [] text = "chest pain_Chennai_Cardiology_0_77.5946" -> "4ba4e9f80fe87a4b3b377c4f625cb7c4"
      [] text = "chest pain_Delhi__0_77.5946" -> "5c17f496c17b7d1865228554ee3debf1"
      [] text = "chest pain_Delhi_Cardiology_0_77.5946" -> "ed6fe6eb271b296712bb3e24231e316b"
      [] text = "chest pain_Pune__0_77.5946" -> "c22ec7459c1f469dbd8b6552e96fb7e5"
      [] text = "chest pain_Pune_Cardiology_0_77.5946" -> "3a635239930a8c8f4c1f8acd80fb0ec9"
      [] text = "chest pain_tamil nadu__0_77.5946" -> "73e8d4e751859462835d8cbec712c633"
      [] text = "chest pain_tamil nadu_Cardiology_0_77.5946" -> "e4e4d2468ad3c895a93f9bb489057085"
      [] text = "fever_Chennai__0_77.5946" -> "62feb57a5c3d97ce73aec1a2c806529e"
      [] text = "fever_Chennai_Cardiology_0_77.5946" -> "18380bcd814e732756bfa8a05af14d3b"
      [] text = "fever_Delhi__0_77.5946" -> "fa53d19c17a3fd4a8b24675f169e914b"
      [] text = "fever_Delhi_Cardiology_0_77.5946" -> "a21b626cc658c73f90da871f4cd68d42"
      [] text = "fever_Pune__0_77.5946" -> "932d5ef70d73d6676a4f544b151ddc99"
      [] text = "fever_Pune_Cardiology_0_77.5946" -> "ab2c9559df34f651fd83b71a7dc9d396"
      [] text = "fever_tamil nadu__0_77.5946" -> "f0a3da17f3bf8f3976629e3e3f10283a"
      [] text = "fever_tamil nadu_Cardiology_0_77.5946" -> "b7bd16c401fcf2c60eb2791ff5593c1a"
      [] text = "skin_Chennai__0_77.5946" -> "3634384f483a777329d1945868025b53"
      [] text = "skin_Chennai_Cardiology_0_77.5946" -> "6b7fc7486ef04bb49dd36c784a75c8cc"
      [] text = "skin_Delhi__0_77.5946" -> "ec46faafdaf040cd4ea4eabbc5807428"
      [] text = "skin_Delhi_Cardiology_0_77.5946" -> "5f208f2aaba908e1956c3525c962a7c4"
      [] text = "skin_Pune__0_77.5946" -> "5b4304a085a4a0a728ad64745f4d1513"
      [] text = "skin_Pune_Cardiology_0_77.5946" -> "3e8fe1d5778d4719562b15ae7de0c1c5"
      [] text = "skin_tamil nadu__0_77.5946" -> "376b2717da0044f13a177a14706dad2e"
      [] text = "skin_tamil nadu_Cardiology_0_77.5946" -> "a56c4ca7350f76330a629ed0bb4cc745"

\* The texts the model hashes, and the namespace prefixes of the endpoints.
HashedTexts == {"fever", "book fever", "doctor nearby", "English",
                "heart_Chennai__None_None"}

Prefixes == {"health", "hospitals", "news", "realtime_news"}

get_cache_key_bare(text, prefix) == MD5(text)

get_cache_key(text, prefix) == prefix \o "_" \o MD5(text)

\* cache is a dict: key -> <<item, timestamp>>.
DictDel(c, key) == [k \in (DOMAIN c) \ {key} |-> c[k]]

DictSet(c, key, e) == [k \in (DOMAIN c) \cup {key} |-> IF k = key THEN e ELSE c[k]]

get_from_cache_inclusive(c, key, t) ==
    IF key \in DOMAIN c
    THEN IF t - c[key][2] <= CACHE_DURATION
         THEN [ret |-> c[key][1], cache |-> c]
         ELSE [ret |-> None, cache |-> DictDel(c, key)]
    ELSE [ret |-> None, cache |-> c]

realtime_cache_check_pop(c, key, t) ==
    IF key \in DOMAIN c
    THEN IF t - c[key][2] < NEWS_CACHE_DURATION
         THEN [ret |-> c[key][1], cache |-> DictDel(c, key)]
         ELSE [ret |-> None, cache |-> DictDel(c, key)]
    ELSE [ret |-> None, cache |-> c]

set_cache_keep(c, key, value, t) ==
    IF key \in DOMAIN c THEN c ELSE DictSet(c, key, <<value, t>>)

\* get_from_cache at time t: the value returned and the cache it leaves.
get_from_cache(c, key, t) ==
    IF key \in DOMAIN c
    THEN IF t - c[key][2] < CACHE_DURATION
         THEN [ret |-> c[key][1], cache |-> c]
         ELSE [ret |-> None, cache |-> DictDel(c, key)]
    ELSE [ret |-> None, cache |-> c]

set_cache(c, key, value, t) == DictSet(c, key, <<value, t>>)

\* The inline check of get_realtime_news, with its own duration.
realtime_cache_check(c, key, t) ==
    IF key \in DOMAIN c
    THEN IF t - c[key][2] < NEWS_CACHE_DURATION
         THEN [ret |-> c[key][1], cache |-> c]
         ELSE [ret |-> None, cache |-> DictDel(c, key)]
    ELSE [ret |-> None, cache |-> c]

\* cache[cache_key] = (result, time.time()) in get_realtime_news.
realtime_cache_store(c, key, value, t) == DictSet(c, key, <<value, t>>)

is_healthcare_question_any(question) == TRUE

is_healthcare_question(question) == AnyIn(healthcare_keywords, Lower(question))

\* Python str() of an optional coordinate.
PyStr(x) ==
    CASE x = NoNumber -> "None"
      [] x = <<0>> -> "0"
      [] x = <<1297160>> -> "12.9716"
      [] x = <<7759460>> -> "77.5946"

(***************************************************************************)
(* The health-center search: inputs, provider data and the pure parts of   *)
(* get_nearest_health_centers.  Coordinates are in units of 0.00001        *)
(* degree, radii in units of 0.01 degree, distances in millimetres.        *)
(***************************************************************************)
MaxReplies == 2

\* The requests sent to /health-centers: the origin of the searches with
\* several budgets, and coordinates the handler turns away.
HCInputs ==
    { [latitude |-> <<1297160>>, longitude |-> <<7759460>>,
       max_distance |-> d, max_results |-> n] : d \in {10, 25, 50}, n \in {2, 20} }
    \cup
    { [latitude |-> NoNumber, longitude |-> <<7759460>>,
       max_distance |-> 25, max_results |-> 20],
      [latitude |-> <<0>>, longitude |-> <<7759460>>,
       max_distance |-> 25, max_results |-> 20],
      [latitude |-> <<9100000>>, longitude |-> <<7759460>>,
       max_distance |-> 25, max_results |-> 20],
      [latitude |-> <<9100000>>, longitude |-> <<0>>,
       max_distance |-> 25, max_results |-> 20],
      [latitude |-> <<1297160>>, longitude |-> <<18100000>>,
       max_distance |-> 25, max_results |-> 20] }

\* Places the provider can report.  A place without "lat" makes
\* float(place["lat"]) raise.
Place(id, lat, lon, name, amenity, type) ==
    [place_id |-> id, lat |-> lat, lon |-> lon, display_name |-> name,
     amenity |-> amenity, type |-> type]

P_city == Place(1, <<1297160>>, <<7759460>>,
                <<"C","i","t","y"," ","H","o","s","p","i","t","a","l">>,
                "hospital", <<"h","o","s","p","i","t","a","l">>)

P_annex == Place(2, <<1297161>>, <<7759461>>, <<"A","n","n","e","x">>, "", <<>>)

P_north == Place(3, <<1299860>>, <<7759460>>,
                 <<"H","o","s","p","i","t","a","l"," ","R","o","a","d"," ",
                   "C","l","i","n","i","c">>,
                 "clinic", <<"c","l","i","n","i","c">>)

P_south == Place(4, <<1294460>>, <<7759460>>,
                 <<"A","p","o","l","l","o"," ","P","h","a","r","m","a","c","y">>,
                 "pharmacy", <<"p","h","a","r","m","a","c","y">>)

P_far == Place(5, <<1307960>>, <<7759460>>, <<"D","r"," ","R","a","o">>,
               "doctors", <<"d","o","c","t","o","r","s">>)

P_out == Place(6, <<1324160>>, <<7759460>>,
               <<"E","m","e","r","g","e","n","c","y"," ","C","a","r","e">>,
               "", <<"e","m","e","r","g","e","n","c","y">>)

P_broken == Place(7, NoNumber, <<7759460>>, <<"A","n","n","e","x">>, "", <<>>)

Places == {P_city, P_annex, P_north, P_south, P_far, P_out, P_broken}

\* The lists a provider call can answer with.
Replies ==
    {<<>>} \cup {<<x>> : x \in Places}
    \cup {<<P_city, P_north, P_far, P_out, P_annex>>, <<P_far, P_south, P_north>>}

\* What the reverse geocoder can report as the address of the origin.
Address(city, town, village, hamlet, state) ==
    [city |-> city, town |-> town, village |-> village, hamlet |-> hamlet,
     state |-> state]

Addresses ==
    { Address("", "", "", "", ""),
      Address("Bengaluru", "", "", "", "Karnataka"),
      Address("", "", "Hebbal", "", ""),
      Address("", "", "", "", "Karnataka") }

\* a or b or c or d on strings: the first that is not empty.
FirstOf(a, b, c, d) ==
    IF a # "" THEN a ELSE IF b # "" THEN b ELSE IF c # "" THEN c ELSE d

search_radii(max_distance) ==
    IF max_distance <= 10 THEN <<5, 10, 20, 30>> ELSE <<10, 20, 40, 60>>

NumQueries == 6

\* round(x, 4) of a coordinate: to the nearest multiple of 10 units, an
\* exact tie going to the even one.
Round4(x) ==
    LET q == x \div 10
        r == x % 10
    IN IF r < 5 THEN q * 10
       ELSE IF r > 5 THEN (q + 1) * 10
       ELSE IF q % 2 = 0 THEN q * 10 ELSE (q + 1) * 10

\* round(distance, 2): to the nearest 0.01 km.
Round2(d) ==
    LET q == d \div 10000
        r == d % 10000
    IN IF r < 5000 THEN q * 10000
       ELSE IF r > 5000 THEN (q + 1) * 10000
       ELSE IF q % 2 = 0 THEN q * 10000 ELSE (q + 1) * 10000

\* The haversine distance, radius 6371 km, tabulated for the origin and the
\* places of the model.
calculate_distance(lat1, lon1, lat2, lon2) ==
    CASE <<lat1, lon1, lat2, lon2>> = <<1297160, 7759460, 1297160, 7759460>> -> 0
      [] <<lat1, lon1, lat2, lon2>> = <<1297160, 7759460, 1297161, 7759461>> -> 1553
      [] <<lat1, lon1, lat2, lon2>> = <<1297160, 7759460, 1299860, 7759460>> -> 3002263
      [] <<lat1, lon1, lat2, lon2>> = <<1297160, 7759460, 1294460, 7759460>> -> 3002263
      [] <<lat1, lon1, lat2, lon2>> = <<1297160, 7759460, 1307960, 7759460>> -> 12009052
      [] <<lat1, lon1, lat2, lon2>> = <<1297160, 7759460, 1324160, 7759460>> -> 30022630
      [] <<lat1, lon1, lat2, lon2>> = <<1297160, 7759460, 2856650, 7720710>> -> 1734537562
      [] <<lat1, lon1, lat2, lon2>> = <<1297160, 7759460, 1308270, 8027070>> -> 290172025
      [] <<lat1, lon1, lat2, lon2>> = <<1297160, 7759460, 2845950, 7702660>> -> 1723179994
      [] <<lat1, lon1, lat2, lon2>> = <<1297160, 7759460, 2684670, 8094620>> -> 1581866189
      [] <<lat1, lon1, lat2, lon2>> = <<1297160, 7759460, 1291650, 7913250>> -> 166773595

location_key_exact(place_lat, place_lon) == <<place_lat, place_lon>>

location_key(place_lat, place_lon) == <<Round4(place_lat), Round4(place_lon)>>

within_any(distance, max_distance) == TRUE

\* distance <= max_distance, the budget being in km.
within(distance, max_distance) == distance <= max_distance * 1000000

W_hospital == <<"h","o","s","p","i","t","a","l">>
W_clinic == <<"c","l","i","n","i","c">>
W_doctor == <<"d","o","c","t","o","r">>
W_pharmacy == <<"p","h","a","r","m","a","c","y">>
W_emergency == <<"e","m","e","r","g","e","n","c","y">>

\* display_name.split(",")[0].strip()
RECURSIVE UpToComma(_)
UpToComma(s) ==
    IF s = <<>> \/ Head(s) = "," THEN <<>> ELSE <<Head(s)>> \o UpToComma(Tail(s))

facility_name_of(place) == Strip(UpToComma(place.display_name))

facility_type_of(place) ==
    LET name == Lower(facility_name_of(place)) IN
    IF place.amenity = "hospital" \/ Contains(name, W_hospital) THEN "hospital"
    ELSE IF place.amenity = "clinic" \/ Contains(name, W_clinic) THEN "clinic"
    ELSE IF place.amenity = "doctors" \/ Contains(name, W_doctor) THEN "doctor"
    ELSE IF place.amenity = "pharmacy" \/ Contains(name, W_pharmacy) THEN "pharmacy"
    ELSE IF Contains(Lower(place.type), W_emergency)
            \/ Contains(name, W_emergency) THEN "emergency"
    ELSE "medical"

\* The dict appended to results for a place at the given distance.
Facility(place, distance) ==
    [name |-> facility_name_of(place), latitude |-> place.lat[1],
     longitude |-> place.lon[1], distance |-> Round2(distance),
     type |-> facility_type_of(place), place_id |-> place.place_id]

\* The loop over all_results from index i on: seen is seen_locations,
\* results the list built so far.
RECURSIVE process_places(_, _, _, _, _, _, _)
process_places(places, i, seen, results, latitude, longitude, max_distance) ==
    IF i > Len(places) THEN results
    ELSE LET place == places[i] IN
         IF place.lat = NoNumber \/ place.lon = NoNumber
         THEN process_places(places, i + 1, seen, results,
                             latitude, longitude, max_distance)
         ELSE LET key == location_key(place.lat[1], place.lon[1]) IN
              IF key \in seen
              THEN process_places(places, i + 1, seen, results,
                                  latitude, longitude, max_distance)
              ELSE LET distance == calculate_distance(latitude, longitude,
                                                      place.lat[1], place.lon[1])
                   IN process_places(
                          places, i + 1, seen \cup {key},
                          IF within(distance, max_distance)
                          THEN Append(results, Facility(place, distance))
                          ELSE results,
                          latitude, longitude, max_distance)

\* list.sort(key=distance): a stable insertion of x into a sorted list.
RECURSIVE insert_sorted_unstable(_, _)
insert_sorted_unstable(sorted, x) ==
    IF sorted = <<>> THEN <<x>>
    ELSE IF sorted[Len(sorted)].distance < x.distance THEN Append(sorted, x)
    ELSE Append(insert_sorted_unstable(SubSeq(sorted, 1, Len(sorted) - 1), x),
                sorted[Len(sorted)])

RECURSIVE insert_sorted(_, _)
insert_sorted(sorted, x) ==
    IF sorted = <<>> THEN <<x>>
    ELSE IF sorted[Len(sorted)].distance <= x.distance THEN Append(sorted, x)
    ELSE Append(insert_sorted(SubSeq(sorted, 1, Len(sorted) - 1), x),
                sorted[Len(sorted)])

RECURSIVE sort_by_distance(_)
sort_by_distance(s) ==
    IF s = <<>> THEN <<>>
    ELSE insert_sorted(sort_by_distance(SubSeq(s, 1, Len(s) - 1)), s[Len(s)])

Slice_all(s, n) == s

\* s[:n]
Slice(s, n) ==
    IF n >= 0 THEN SubSeq(s, 1, IF n < Len(s) THEN n ELSE Len(s))
    ELSE SubSeq(s, 1, IF Len(s) + n > 0 THEN Len(s) + n ELSE 0)

NoResults == [kind |-> "error", items |-> <<>>]

ResultList(items) == [kind |-> "list", items |-> items]

search_result_plain(places, latitude, longitude, max_distance, max_results) ==
    ResultList(Slice(sort_by_distance(
        process_places(places, 1, {}, <<>>, latitude, longitude, max_distance)),
        max_results))

\* What get_nearest_health_centers returns for the collected all_results.
search_result(places, latitude, longitude, max_distance, max_results) ==
    IF places = <<>> THEN NoResults
    ELSE ResultList(Slice(sort_by_distance(
             process_places(places, 1, {}, <<>>, latitude, longitude, max_distance)),
             max_results))

need_fallback_always(places) == TRUE

need_fallback_never(places) == FALSE

\* if not all_results: the locality stage is entered.
need_fallback(places) == places = <<>>

need_state_search_always(state, places) == state # ""

\* if state and not all_results
need_state_search(state, places) == state # "" /\ places = <<>>

stop_before_radius_never(places, max_results) == FALSE

\* for radius ...: if len(all_results) >= max_results: break
stop_before_radius(places, max_results) == Len(places) >= max_results

\* if len(all_results) >= 5 and radius <= 0.1: break
stop_after_radius(places, radius) == Len(places) >= 5 /\ radius <= 10

(***************************************************************************)
(* The static hospital directory and its matcher.  Ratings and scores are  *)
(* in tenths, coordinates in units of 0.00001 degree, distances in         *)
(* millimetres.                                                            *)
(***************************************************************************)
CONDITION_SPECIALTY_MAP ==
    << [keyword |-> <<"h","e","a","r","t">>,
        specialties |-> << <<"C","a","r","d","i","o","l","o","g","y">>,
                           <<"C","a","r","d","i","a","c"," ","S","u","r","g","e","r","y">>,
                           <<"I","n","t","e","r","v","e","n","t","i","o","n","a","l"," ","C","a","r","d","i","o","l","o","g","y">> >>],
       [keyword |-> <<"b","r","a","i","n">>,
        specialties |-> << <<"N","e","u","r","o","l","o","g","y">>,
                           <<"N","e","u","r","o","s","u","r","g","e","r","y">>,
                           <<"N","e","u","r","o","p","s","y","c","h","i","a","t","r","y">> >>],
       [keyword |-> <<"c","a","n","c","e","r">>,
        specialties |-> << <<"O","n","c","o","l","o","g","y">>,
                           <<"R","a","d","i","a","t","i","o","n"," ","O","n","c","o","l","o","g","y">>,
                           <<"S","u","r","g","i","c","a","l"," ","O","n","c","o","l","o","g","y">>,
                           <<"M","e","d","i","c","a","l"," ","O","n","c","o","l","o","g","y">> >>],
       [keyword |-> <<"b","o","n","e">>,
        specialties |-> << <<"O","r","t","h","o","p","e","d","i","c","s">>,
                           <<"R","h","e","u","m","a","t","o","l","o","g","y">>,
                           <<"S","p","o","r","t","s"," ","M","e","d","i","c","i","n","e">> >>],
       [keyword |-> <<"k","i","d","n","e","y">>,
        specialties |-> << <<"N","e","p","h","r","o","l","o","g","y">>,
                           <<"U","r","o","l","o","g","y">>,
                           <<"R","e","n","a","l"," ","T","r","a","n","s","p","l","a","n","t">> >>],
       [keyword |-> <<"l","i","v","e","r">>,
        specialties |-> << <<"H","e","p","a","t","o","l","o","g","y">>,
                           <<"G","a","s","t","r","o","e","n","t","e","r","o","l","o","g","y">>,
                           <<"L","i","v","e","r"," ","T","r","a","n","s","p","l","a","n","t">> >>],
       [keyword |-> <<"l","u","n","g">>,
        specialties |-> << <<"P","u","l","m","o","n","o","l","o","g","y">>,
                           <<"T","h","o","r","a","c","i","c"," ","S","u","r","g","e","r","y">>,
                           <<"R","e","s","p","i","r","a","t","o","r","y"," ","M","e","d","i","c","i","n","e">> >>],
       [keyword |-> <<"s","t","o","m","a","c","h">>,
        specialties |-> << <<"G","a","s","t","r","o","e","n","t","e","r","o","l","o","g","y">>,
                           <<"G","e","n","e","r","a","l"," ","S","u","r","g","e","r","y">>,
                           <<"D","i","g","e","s","t","i","v","e"," ","D","i","s","e","a","s","e","s">> >>],
       [keyword |-> <<"s","k","i","n">>,
        specialties |-> << <<"D","e","r","m","a","t","o","l","o","g","y">>,
                           <<"P","l","a","s","t","i","c"," ","S","u","r","g","e","r","y">>,
                           <<"D","e","r","m","a","t","o","p","a","t","h","o","l","o","g","y">> >>],
       [keyword |-> <<"e","y","e">>,
        specialties |-> << <<"O","p","h","t","h","a","l","m","o","l","o","g","y">>,
                           <<"R","e","t","i","n","a"," ","S","u","r","g","e","r","y">>,
                           <<"C","o","r","n","e","a","l"," ","T","r","a","n","s","p","l","a","n","t">> >>],
       [keyword |-> <<"c","h","i","l","d">>,
        specialties |-> << <<"P","e","d","i","a","t","r","i","c","s">>,
                           <<"P","e","d","i","a","t","r","i","c"," ","S","u","r","g","e","r","y">>,
                           <<"N","e","o","n","a","t","o","l","o","g","y">> >>],
       [keyword |-> <<"p","r","e","g","n","a","n","c","y">>,
        specialties |-> << <<"O","b","s","t","e","t","r","i","c","s">>,
                           <<"G","y","n","e","c","o","l","o","g","y">>,
                           <<"M","a","t","e","r","n","a","l"," ","M","e","d","i","c","i","n","e">> >>],
       [keyword |-> <<"m","e","n","t","a","l">>,
        specialties |-> << <<"P","s","y","c","h","i","a","t","r","y">>,
                           <<"P","s","y","c","h","o","l","o","g","y">>,
                           <<"M","e","n","t","a","l"," ","H","e","a","l","t","h">> >>],
       [keyword |-> <<"e","m","e","r","g","e","n","c","y">>,
        specialties |-> << <<"E","m","e","r","g","e","n","c","y"," ","M","e","d","i","c","i","n","e">>,
                           <<"T","r","a","u","m","a"," ","S","u","r","g","e","r","y">>,
                           <<"C","r","i","t","i","c","a","l"," ","C","a","r","e">> >>] >>

\* A hospital without the keys "latitude" and "longitude" has NoNumber there.
HOSPITAL_DATABASE ==
    << [id |-> 1, name |-> "All India Institute of Medical Sciences (AIIMS)", type |-> "Government Hospital",
        specialties |-> << <<"C","a","r","d","i","o","l","o","g","y">>,
                           <<"N","e","u","r","o","l","o","g","y">>,
                           <<"O","n","c","o","l","o","g","y">>,
                           <<"G","e","n","e","r","a","l"," ","S","u","r","g","e","r","y">>,
                           <<"O","r","t","h","o","p","e","d","i","c","s">>,
                           <<"E","m","e","r","g","e","n","c","y"," ","M","e","d","i","c","i","n","e">> >>,
        rating |-> 48, location |-> <<"N","e","w"," ","D","e","l","h","i">>,
        state |-> <<"D","e","l","h","i">>,
        latitude |-> <<2856650>>, longitude |-> <<7720710>>],
       [id |-> 2, name |-> "Apollo Hospitals", type |-> "Private Hospital",
        specialties |-> << <<"C","a","r","d","i","o","l","o","g","y">>,
                           <<"C","a","r","d","i","a","c"," ","S","u","r","g","e","r","y">>,
                           <<"N","e","u","r","o","l","o","g","y">>,
                           <<"O","n","c","o","l","o","g","y">>,
                           <<"T","r","a","n","s","p","l","a","n","t"," ","S","u","r","g","e","r","y">> >>,
        rating |-> 46, location |-> <<"C","h","e","n","n","a","i">>,
        state |-> <<"T","a","m","i","l"," ","N","a","d","u">>,
        latitude |-> <<1308270>>, longitude |-> <<8027070>>],
       [id |-> 3, name |-> "Fortis Hospital", type |-> "Private Hospital",
        specialties |-> << <<"C","a","r","d","i","o","l","o","g","y">>,
                           <<"N","e","u","r","o","s","u","r","g","e","r","y">>,
                           <<"O","r","t","h","o","p","e","d","i","c","s">>,
                           <<"G","a","s","t","r","o","e","n","t","e","r","o","l","o","g","y">>,
                           <<"E","m","e","r","g","e","n","c","y"," ","M","e","d","i","c","i","n","e">> >>,
        rating |-> 44, location |-> <<"G","u","r","g","a","o","n">>,
        state |-> <<"H","a","r","y","a","n","a">>,
        latitude |-> <<2845950>>, longitude |-> <<7702660>>],
       [id |-> 4, name |-> "Manipal Hospital", type |-> "Private Hospital",
        specialties |-> << <<"C","a","r","d","i","o","l","o","g","y">>,
                           <<"N","e","u","r","o","l","o","g","y">>,
                           <<"O","n","c","o","l","o","g","y">>,
                           <<"N","e","p","h","r","o","l","o","g","y">>,
                           <<"O","r","t","h","o","p","e","d","i","c","s">> >>,
        rating |-> 45, location |-> <<"B","a","n","g","a","l","o","r","e">>,
        state |-> <<"K","a","r","n","a","t","a","k","a">>,
        latitude |-> <<1297160>>, longitude |-> <<7759460>>],
       [id |-> 5, name |-> "King George's Medical University", type |-> "Government Hospital",
        specialties |-> << <<"G","e","n","e","r","a","l"," ","M","e","d","i","c","i","n","e">>,
                           <<"S","u","r","g","e","r","y">>,
                           <<"P","e","d","i","a","t","r","i","c","s">>,
                           <<"O","b","s","t","e","t","r","i","c","s">>,
                           <<"E","m","e","r","g","e","n","c","y"," ","M","e","d","i","c","i","n","e">> >>,
        rating |-> 42, location |-> <<"L","u","c","k","n","o","w">>,
        state |-> <<"U","t","t","a","r"," ","P","r","a","d","e","s","h">>,
        latitude |-> <<2684670>>, longitude |-> <<8094620>>],
       [id |-> 6, name |-> "Christian Medical College", type |-> "Private Hospital",
        specialties |-> << <<"I","n","t","e","r","n","a","l"," ","M","e","d","i","c","i","n","e">>,
                           <<"S","u","r","g","e","r","y">>,
                           <<"P","e","d","i","a","t","r","i","c","s">>,
                           <<"O","b","s","t","e","t","r","i","c","s">>,
                           <<"E","m","e","r","g","e","n","c","y"," ","M","e","d","i","c","i","n","e">> >>,
        rating |-> 47, location |-> <<"V","e","l","l","o","r","e">>,
        state |-> <<"T","a","m","i","l"," ","N","a","d","u">>,
        latitude |-> <<1291650>>, longitude |-> <<7913250>>],
       [id |-> 7, name |-> "Max Super Specialty Hospital", type |-> "Private Hospital",
        specialties |-> << <<"C","a","r","d","i","o","l","o","g","y">>,
                           <<"O","n","c","o","l","o","g","y">>,
                           <<"N","e","u","r","o","s","u","r","g","e","r","y">>,
                           <<"O","r","t","h","o","p","e","d","i","c","s">>,
                           <<"G","a","s","t","r","o","e","n","t","e","r","o","l","o","g","y">> >>,
        rating |-> 43, location |-> <<"D","e","l","h","i">>,
        state |-> <<"D","e","l","h","i">>,
        latitude |-> NoNumber, longitude |-> NoNumber],
       [id |-> 8, name |-> "Tata Memorial Hospital", type |-> "Government Hospital",
        specialties |-> << <<"O","n","c","o","l","o","g","y">>,
                           <<"R","a","d","i","a","t","i","o","n"," ","O","n","c","o","l","o","g","y">>,
                           <<"S","u","r","g","i","c","a","l"," ","O","n","c","o","l","o","g","y">>,
                           <<"M","e","d","i","c","a","l"," ","O","n","c","o","l","o","g","y">> >>,
        rating |-> 46, location |-> <<"M","u","m","b","a","i">>,
        state |-> <<"M","a","h","a","r","a","s","h","t","r","a">>,
        latitude |-> NoNumber, longitude |-> NoNumber],
       [id |-> 9, name |-> "Sankara Nethralaya", type |-> "Private Hospital",
        specialties |-> << <<"O","p","h","t","h","a","l","m","o","l","o","g","y">>,
                           <<"R","e","t","i","n","a"," ","S","u","r","g","e","r","y">>,
                           <<"C","o","r","n","e","a","l"," ","T","r","a","n","s","p","l","a","n","t">>,
                           <<"P","e","d","i","a","t","r","i","c"," ","O","p","h","t","h","a","l","m","o","l","o","g","y">> >>,
        rating |-> 45, location |-> <<"C","h","e","n","n","a","i">>,
        state |-> <<"T","a","m","i","l"," ","N","a","d","u">>,
        latitude |-> NoNumber, longitude |-> NoNumber],
       [id |-> 10, name |-> "Medanta - The Medicity", type |-> "Private Hospital",
        specialties |-> << <<"C","a","r","d","i","o","l","o","g","y">>,
                           <<"N","e","u","r","o","s","u","r","g","e","r","y">>,
                           <<"O","n","c","o","l","o","g","y">>,
                           <<"G","a","s","t","r","o","e","n","t","e","r","o","l","o","g","y">>,
                           <<"O","r","t","h","o","p","e","d","i","c","s">> >>,
        rating |-> 44, location |-> <<"G","u","r","g","a","o","n">>,
        state |-> <<"H","a","r","y","a","n","a">>,
        latitude |-> NoNumber, longitude |-> NoNumber] >>

T_chest_pain == <<"c","h","e","s","t"," ","p","a","i","n">>
T_skin == <<"s","k","i","n">>
T_Delhi == <<"D","e","l","h","i">>
T_Pune == <<"P","u","n","e">>
T_tamil_nadu == <<"t","a","m","i","l"," ","n","a","d","u">>
T_Cardiology == <<"C","a","r","d","i","o","l","o","g","y">>

\* The requests sent to /hospitals in the specification of /hospitals alone.
FHInputs ==
    { [condition |-> c, location |-> l, specialty |-> s,
       latitude |-> u[1], longitude |-> u[2]] :
        c \in {T_heart, T_chest_pain, Q_fever, T_skin},
        l \in {T_Chennai, T_Delhi, T_Pune, T_tamil_nadu, <<" ">>},
        s \in {<<>>, T_Cardiology},
        u \in { <<NoNumber, NoNumber>>, <<<<1297160>>, <<7759460>>>>,
                <<<<0>>, <<7759460>>>>, <<<<9100000>>, <<7759460>>>> } }

\* What get_nearest_health_centers(user_lat, user_lng, 50, 10) can have
\* collected when find_hospitals calls it.
NearbyCandidates ==
    { <<>>, <<P_city>>, <<P_north>>, <<P_south>>, <<P_out>>, <<P_broken>>,
      <<P_far, P_south, P_north>> }

T_heart_Chennai == <<"h","e","a","r","t","_","C","h","e","n","n","a","i">>
T_Apollo == <<"A","p","o","l","l","o">>
T_Chennai_Apollo == <<"C","h","e","n","n","a","i","_","A","p","o","l","l","o">>

\* The /hospitals requests of the specification of its cache: two that
\* differ in condition and in location, and one that reaches every source.
KeyInputs ==
    { [condition |-> T_heart, location |-> T_Chennai_Apollo, specialty |-> <<>>,
       latitude |-> NoNumber, longitude |-> NoNumber],
      [condition |-> T_heart_Chennai, location |-> T_Apollo, specialty |-> <<>>,
       latitude |-> NoNumber, longitude |-> NoNumber],
      [condition |-> T_skin, location |-> T_Pune, specialty |-> <<>>,
       latitude |-> <<1297160>>, longitude |-> <<7759460>>] }

\* user_lat and user_lng in a condition: neither None nor 0.
Truthy(x) == x # NoNumber /\ x[1] # 0

\* The specialties of the keywords of CONDITION_SPECIALTY_MAP that occur in
\* the condition, from the entry i on.
RECURSIVE condition_specialties(_, _)
condition_specialties(condition_lower, i) ==
    IF i > Len(CONDITION_SPECIALTY_MAP) THEN <<>>
    ELSE (IF Contains(condition_lower, CONDITION_SPECIALTY_MAP[i].keyword)
          THEN CONDITION_SPECIALTY_MAP[i].specialties ELSE <<>>)
         \o condition_specialties(condition_lower, i + 1)

relevant_specialties(condition, specialty) ==
    condition_specialties(Lower(condition), 1)
      \o (IF specialty # <<>> THEN <<specialty>> ELSE <<>>)

location_match_never(hospital, location_lower) == FALSE

location_match(hospital, location_lower) ==
    \/ Contains(Lower(hospital.location), location_lower)
    \/ Contains(Lower(hospital.state), location_lower)
    \/ Contains(location_lower, Lower(hospital.location))
    \/ Contains(location_lower, Lower(hospital.state))

specialty_match(hospital, relevant) ==
    IF relevant # <<>>
    THEN \E i \in 1..Len(relevant) :
           \E j \in 1..Len(hospital.specialties) :
             Contains(Lower(hospital.specialties[j]), Lower(relevant[i]))
    ELSE TRUE

keep_hospital_all(lm, sm) == TRUE

\* if location_match or specialty_match
keep_hospital(lm, sm) == lm \/ sm

proximity_boost(actual_distance) ==
    IF actual_distance <= 5000000 THEN 200
    ELSE IF actual_distance <= 10000000 THEN 150
    ELSE IF actual_distance <= 20000000 THEN 100
    ELSE 0

\* hospital_info of the matcher: the hospital with its relevance_score and
\* its actual_distance, the true one or score/10 km.
hospital_info(hospital, lm, sm, user_lat, user_lng) ==
    LET score == (IF lm THEN 500 ELSE 0) + (IF sm THEN 300 ELSE 0)
                   + hospital.rating * 5
    IN IF /\ Truthy(user_lat) /\ Truthy(user_lng)
          /\ hospital.latitude # NoNumber /\ hospital.longitude # NoNumber
       THEN LET actual_distance ==
                    calculate_distance(user_lat[1], user_lng[1],
                                       hospital.latitude[1], hospital.longitude[1])
            IN hospital @@ [relevance_score |-> score + proximity_boost(actual_distance),
                            actual_distance |-> actual_distance]
       ELSE hospital @@ [relevance_score |-> score,
                         actual_distance |-> score * 10000]

\* The loop over HOSPITAL_DATABASE from the entry i on.
RECURSIVE matching_hospitals(_, _, _, _, _)
matching_hospitals(i, location_lower, relevant, user_lat, user_lng) ==
    IF i > Len(HOSPITAL_DATABASE) THEN <<>>
    ELSE LET hospital == HOSPITAL_DATABASE[i]
             lm == location_match(hospital, location_lower)
             sm == specialty_match(hospital, relevant)
         IN (IF keep_hospital(lm, sm)
             THEN <<hospital_info(hospital, lm, sm, user_lat, user_lng)>>
             ELSE <<>>)
            \o matching_hospitals(i + 1, location_lower, relevant, user_lat, user_lng)

\* sort(key=actual_distance): stable, ascending.
RECURSIVE insert_by_distance(_, _)
insert_by_distance(sorted, x) ==
    IF sorted = <<>> THEN <<x>>
    ELSE IF sorted[Len(sorted)].actual_distance <= x.actual_distance
    THEN Append(sorted, x)
    ELSE Append(insert_by_distance(SubSeq(sorted, 1, Len(sorted) - 1), x),
                sorted[Len(sorted)])

RECURSIVE sort_by_actual_distance(_)
sort_by_actual_distance(s) ==
    IF s = <<>> THEN <<>>
    ELSE insert_by_distance(sort_by_actual_distance(SubSeq(s, 1, Len(s) - 1)),
                            s[Len(s)])

RECURSIVE insert_by_score_ascending(_, _)
insert_by_score_ascending(sorted, x) ==
    IF sorted = <<>> THEN <<x>>
    ELSE IF sorted[Len(sorted)].relevance_score <= x.relevance_score
    THEN Append(sorted, x)
    ELSE Append(insert_by_score_ascending(SubSeq(sorted, 1, Len(sorted) - 1), x),
                sorted[Len(sorted)])

\* sort(key=relevance_score, reverse=True): stable, descending.
RECURSIVE insert_by_score(_, _)
insert_by_score(sorted, x) ==
    IF sorted = <<>> THEN <<x>>
    ELSE IF sorted[Len(sorted)].relevance_score >= x.relevance_score
    THEN Append(sorted, x)
    ELSE Append(insert_by_score(SubSeq(sorted, 1, Len(sorted) - 1), x),
                sorted[Len(sorted)])

RECURSIVE sort_by_relevance(_)
sort_by_relevance(s) ==
    IF s = <<>> THEN <<>>
    ELSE insert_by_score(sort_by_relevance(SubSeq(s, 1, Len(s) - 1)), s[Len(s)])

\* The result dict of the matcher and of find_hospitals.  suggestedSpecialty
\* is <<>> for None.
HospitalResult(hospitals, suggested, total, location, fallback, nearby) ==
    [hospitals |-> hospitals, suggestedSpecialty |-> suggested,
     totalFound |-> total, searchLocation |-> location,
     fallback |-> fallback, fromNearbySearch |-> nearby]

find_hospitals_by_condition_location(condition, location, specialty, user_lat, user_lng) ==
    LET relevant == relevant_specialties(condition, specialty)
        matching == matching_hospitals(1, Lower(location), relevant,
                                       user_lat, user_lng)
        sorted == IF Truthy(user_lat) /\ Truthy(user_lng)
                  THEN sort_by_actual_distance(matching)
                  ELSE sort_by_relevance(matching)
    IN HospitalResult(Slice(sorted, 8),
                      IF relevant # <<>> THEN <<relevant[1]>> ELSE <<>>,
                      Len(matching), location, FALSE, FALSE)

\* if not result["hospitals"]
need_location_fallback(result) == result.hospitals = <<>>

\* The location-substring scan of find_hospitals from the entry i on.
RECURSIVE fallback_hospitals(_, _, _, _)
fallback_hospitals(i, location_lower, user_lat, user_lng) ==
    IF i > Len(HOSPITAL_DATABASE) THEN <<>>
    ELSE LET hospital == HOSPITAL_DATABASE[i] IN
         (IF \/ Contains(Lower(hospital.location), location_lower)
             \/ Contains(Lower(hospital.state), location_lower)
          THEN << hospital @@
                  [actual_distance |->
                     IF /\ Truthy(user_lat) /\ Truthy(user_lng)
                        /\ hospital.latitude # NoNumber
                        /\ hospital.longitude # NoNumber
                     THEN calculate_distance(user_lat[1], user_lng[1],
                                             hospital.latitude[1],
                                             hospital.longitude[1])
                     ELSE hospital.rating * 200000] >>
          ELSE <<>>)
         \o fallback_hospitals(i + 1, location_lower, user_lat, user_lng)

location_fallback(location, user_lat, user_lng) ==
    LET found == fallback_hospitals(1, Lower(location), user_lat, user_lng)
        sorted == IF Truthy(user_lat) /\ Truthy(user_lng)
                  THEN sort_by_actual_distance(found) ELSE found
    IN HospitalResult(Slice(sorted, 5), <<>>, Len(found), location, TRUE, FALSE)

\* The health centers of type hospital, clinic or medical in hospital format.
RECURSIVE converted_hospitals(_, _)
converted_hospitals(nearby_centers, i) ==
    IF i > Len(nearby_centers) THEN <<>>
    ELSE (IF nearby_centers[i].type \in {"hospital", "clinic", "medical"}
          THEN <<[name |-> nearby_centers[i].name,
                  distance |-> nearby_centers[i].distance,
                  type |-> nearby_centers[i].type, rating |-> 40]>>
          ELSE <<>>)
         \o converted_hospitals(nearby_centers, i + 1)


(***************************************************************************)
(* State.                                                                  *)
(***************************************************************************)
VARIABLES
    cache,          \* the module-level dict
    now,            \* the latest value time.time() returned
    pc,             \* where each request handler stands
    req,            \* the request a handler is serving
    cache_key,      \* its local cache_key
    cached_result,  \* its local cached_result
    result,         \* the result it computed
    resp,           \* the response it returned
    lastPut,        \* history: the latest store under each key
    started,        \* history: the number of requests received
    hc_pc,          \* where the /health-centers handler stands
    hc_req,         \* its request: latitude, longitude, max_distance, max_results
    radius_idx,     \* the radius of search_radii being searched
    query_idx,      \* the query of search_queries being sent
    all_results,    \* the list all_results
    address,        \* the address the reverse geocoder gave
    hc_ret,         \* what get_nearest_health_centers returned
    hc_resp,        \* the response of the handler
    calls,          \* history: provider calls made, by kind
    replies,        \* history: the non-empty provider answers so far
    matcher_calls,  \* history: queries of the static directory matcher made
                    \* by the health-center search
    pause,          \* history: the time.sleep made since the latest provider
                    \* call of the search, in 0.01 s (0: none)
    fh_pc,          \* where the /hospitals handler stands
    fh_req,         \* its request
    fh_key,         \* its cache key
    matched,        \* what the static directory matcher returned
    fh_result,      \* the variable result of find_hospitals
    fh_resp,        \* the response of the handler
    fh_sources      \* history: the sources consulted and what each found

cacheVars == <<cache, now, pc, req, cache_key, cached_result, result, resp,
               lastPut, started>>

searchVars == <<hc_pc, hc_req, radius_idx, query_idx, all_results, address,
                hc_ret, hc_resp, calls, replies, matcher_calls, pause>>

hospitalVars == <<fh_pc, fh_req, fh_key, matched, fh_result, fh_resp, fh_sources>>

vars == <<cacheVars, searchVars, hospitalVars>>

\* time.time() never returns less than it returned before.
Clock(t) == t \in TimePoints /\ t >= now /\ now' = t

Response(code, tag, body) == [code |-> code, tag |-> tag, body |-> body]

Init ==
    /\ cache = <<>>
    /\ now = 0
    /\ pc = [p \in Procs |-> "idle"]
    /\ req = [p \in Procs |-> None]
    /\ cache_key = [p \in Procs |-> None]
    /\ cached_result = [p \in Procs |-> None]
    /\ result = [p \in Procs |-> None]
    /\ resp = [p \in Procs |-> None]
    /\ lastPut = <<>>
    /\ started = 0
    /\ hc_pc = "idle"
    /\ hc_req = None
    /\ radius_idx = 1
    /\ query_idx = 1
    /\ all_results = <<>>
    /\ address = None
    /\ hc_ret = None
    /\ hc_resp = None
    /\ calls = [bbox |-> 0, bbox_found |-> 0, reverse |-> 0, city |-> 0,
                state |-> 0, route |-> 0]
    /\ replies = 0
    /\ matcher_calls = 0
    /\ pause = 0
    /\ fh_pc = "idle"
    /\ fh_req = None
    /\ fh_key = None
    /\ matched = None
    /\ fh_result = None
    /\ fh_resp = None
    /\ fh_sources = <<>>

\* A handler returns before it has built a cache key.
Reject(p, r, response) ==
    /\ started' = started + 1
    /\ req' = [req EXCEPT ![p] = r]
    /\ resp' = [resp EXCEPT ![p] = response]
    /\ pc' = [pc EXCEPT ![p] = "done"]
    /\ UNCHANGED <<cache, now, cache_key, cached_result, result, lastPut>>
    /\ UNCHANGED searchVars
    /\ UNCHANGED hospitalVars

\* A handler has built its cache key and goes on to read the cache.
Accept(p, r, key) ==
    /\ started' = started + 1
    /\ req' = [req EXCEPT ![p] = r]
    /\ cache_key' = [cache_key EXCEPT ![p] = key]
    /\ pc' = [pc EXCEPT ![p] = "lookup"]
    /\ UNCHANGED <<cache, now, cached_result, result, resp, lastPut>>
    /\ UNCHANGED searchVars
    /\ UNCHANGED hospitalVars

\* The outcome g of a handler's cache read: a hit is returned, a miss goes on.
LookupAt(p, g) ==
    /\ cache' = g.cache
    /\ cached_result' = [cached_result EXCEPT ![p] = g.ret]
    /\ IF g.ret # None
       THEN /\ resp' = [resp EXCEPT ![p] = Response(200, "cached", g.ret)]
            /\ pc' = [pc EXCEPT ![p] = "done"]
       ELSE /\ pc' = [pc EXCEPT ![p] = "compute"]
            /\ UNCHANGED resp
    /\ UNCHANGED <<req, cache_key, result, lastPut, started>>
    /\ UNCHANGED searchVars
    /\ UNCHANGED hospitalVars

Fail_caching(p, response) ==
    /\ resp' = [resp EXCEPT ![p] = response]
    /\ pc' = [pc EXCEPT ![p] = "done"]
    /\ cache' = set_cache(cache, cache_key[p], response.tag, now)
    /\ UNCHANGED <<now, req, cache_key, cached_result, result, lastPut, started>>
    /\ UNCHANGED searchVars
    /\ UNCHANGED hospitalVars

\* A computation ends the request without a result.
Fail(p, response) ==
    /\ resp' = [resp EXCEPT ![p] = response]
    /\ pc' = [pc EXCEPT ![p] = "done"]
    /\ UNCHANGED <<cache, now, req, cache_key, cached_result, result, lastPut,
                   started>>
    /\ UNCHANGED searchVars
    /\ UNCHANGED hospitalVars

\* A computation produced the value v.
Computed(p, v) ==
    /\ result' = [result EXCEPT ![p] = v]
    /\ pc' = [pc EXCEPT ![p] = "store"]
    /\ UNCHANGED <<cache, now, req, cache_key, cached_result, resp, lastPut,
                   started>>
    /\ UNCHANGED searchVars
    /\ UNCHANGED hospitalVars

\* The result is stored at the clock reading t, leaving cache c2, and is
\* returned.
StoreAt(p, t, c2) ==
    /\ cache' = c2
    /\ lastPut' = DictSet(lastPut, cache_key[p],
                          [item |-> result[p], timestamp |-> t,
                           by |-> p, kind |-> req[p].kind])
    /\ resp' = [resp EXCEPT ![p] = Response(200, "result", result[p])]
    /\ pc' = [pc EXCEPT ![p] = "done"]
    /\ UNCHANGED <<req, cache_key, cached_result, result, started>>
    /\ UNCHANGED searchVars
    /\ UNCHANGED hospitalVars

(***************************************************************************)
(* /ask                                                                    *)
(***************************************************************************)
\* The handler reads the question q and turns it away or builds its key.
ask_request(p, q) ==
    LET r == [kind |-> "health", question |-> Strip(q)] IN
    IF r.question = <<>>
    THEN Reject(p, r, Response(400, "error", None))
    ELSE IF ~is_healthcare_question(r.question)
    THEN Reject(p, r, Response(200, "refusal", None))
    ELSE Accept(p, r, get_cache_key(Str(r.question), "health"))

ask_begin(p) ==
    /\ pc[p] = "idle" /\ started < MaxRequests
    /\ \E q \in Questions : ask_request(p, q)

ask_receive(p) ==
    /\ pc[p] = "idle" /\ started < MaxRequests
    /\ \E q \in AskQuestions : ask_request(p, q)

ask_lookup(p) ==
    /\ pc[p] = "lookup" /\ req[p].kind = "health"
    /\ \E t \in TimePoints :
         /\ Clock(t)
         /\ LookupAt(p, get_from_cache(cache, cache_key[p], t))

\* After a miss: the redirect hints, else the two language-model calls.
ask_compute(p) ==
    /\ pc[p] = "compute" /\ req[p].kind = "health"
    /\ LET question_lower == Lower(req[p].question) IN
       IF AnyIn(location_keywords, question_lower)
          /\ AnyIn(hospital_keywords, question_lower)
       THEN Fail(p, Response(200, "redirect", None))
       ELSE IF AnyIn(appointment_keywords, question_lower)
       THEN Fail(p, Response(200, "redirect", None))
       ELSE \/ \E v \in Values : Computed(p, v)
            \/ Fail(p, Response(500, "error", None))

ask_store(p) ==
    /\ pc[p] = "store" /\ req[p].kind = "health"
    /\ \E t \in TimePoints :
         /\ Clock(t)
         /\ StoreAt(p, t, set_cache(cache, cache_key[p], result[p], t))

(***************************************************************************)
(* /hospitals                                                              *)
(***************************************************************************)
find_hospitals_begin(p) ==
    /\ pc[p] = "idle" /\ started < MaxRequests
    /\ \E d \in HospitalInputs :
         LET r == [kind |-> "hospitals", condition |-> Strip(d.condition),
                   location |-> Strip(d.location), specialty |-> Strip(d.specialty),
                   latitude |-> d.latitude, longitude |-> d.longitude] IN
         IF r.location = <<>>
         THEN Reject(p, r, Response(400, "error", None))
         ELSE IF /\ r.latitude # NoNumber /\ r.longitude # NoNumber
                 /\ \/ ~(-9000000 <= r.latitude[1] /\ r.latitude[1] <= 9000000)
                    \/ ~(-18000000 <= r.longitude[1] /\ r.longitude[1] <= 18000000)
         THEN Reject(p, r, Response(400, "error", None))
         ELSE Accept(p, r, get_cache_key(
                  Str(r.condition) \o "_" \o Str(r.location) \o "_"
                  \o Str(r.specialty) \o "_" \o PyStr(r.latitude) \o "_"
                  \o PyStr(r.longitude), "hospitals"))

find_hospitals_lookup(p) ==
    /\ pc[p] = "lookup" /\ req[p].kind = "hospitals"
    /\ \E t \in TimePoints :
         /\ Clock(t)
         /\ LookupAt(p, get_from_cache(cache, cache_key[p], t))

\* The sources of find_hospitals end in a result, in not-found or in the
\* handler's internal-error response.
find_hospitals_compute(p) ==
    /\ pc[p] = "compute" /\ req[p].kind = "hospitals"
    /\ \/ \E v \in Values : Computed(p, v)
       \/ Fail(p, Response(404, "error", None))
       \/ Fail(p, Response(500, "error", None))

find_hospitals_store(p) ==
    /\ pc[p] = "store" /\ req[p].kind = "hospitals"
    /\ \E t \in TimePoints :
         /\ Clock(t)
         /\ StoreAt(p, t, set_cache(cache, cache_key[p], result[p], t))

(***************************************************************************)
(* /news                                                                   *)
(***************************************************************************)
get_news_begin(p) ==
    /\ pc[p] = "idle" /\ started < MaxRequests
    /\ \E language \in Languages :
         LET r == [kind |-> "news", language |-> language] IN
         IF language = ""
         THEN Reject(p, r, Response(400, "error", None))
         ELSE Accept(p, r, get_cache_key(language, "news"))

get_news_lookup(p) ==
    /\ pc[p] = "lookup" /\ req[p].kind = "news"
    /\ \E t \in TimePoints :
         /\ Clock(t)
         /\ LookupAt(p, get_from_cache(cache, cache_key[p], t))

get_news_compute(p) ==
    /\ pc[p] = "compute" /\ req[p].kind = "news"
    /\ \/ \E v \in Values : Computed(p, v)
       \/ Fail(p, Response(500, "error", None))

get_news_store(p) ==
    /\ pc[p] = "store" /\ req[p].kind = "news"
    /\ \E t \in TimePoints :
         /\ Clock(t)
         /\ StoreAt(p, t, set_cache(cache, cache_key[p], result[p], t))

(***************************************************************************)
(* /news-realtime                                                          *)
(***************************************************************************)
get_realtime_news_begin(p) ==
    /\ pc[p] = "idle" /\ started < MaxRequests
    /\ \E language \in Languages \ {""} :
         Accept(p, [kind |-> "realtime_news", language |-> language],
                get_cache_key(language, "realtime_news"))

get_realtime_news_lookup(p) ==
    /\ pc[p] = "lookup" /\ req[p].kind = "realtime_news"
    /\ \E t \in TimePoints :
         /\ Clock(t)
         /\ LookupAt(p, realtime_cache_check(cache, cache_key[p], t))

\* Feed articles, or the generated fallback, give the result; an exception
\* of the fallback call gives the error response.
get_realtime_news_compute(p) ==
    /\ pc[p] = "compute" /\ req[p].kind = "realtime_news"
    /\ \/ \E v \in Values : Computed(p, v)
       \/ Fail(p, Response(500, "error", None))

get_realtime_news_store(p) ==
    /\ pc[p] = "store" /\ req[p].kind = "realtime_news"
    /\ \E t \in TimePoints :
         /\ Clock(t)
         /\ StoreAt(p, t, realtime_cache_store(cache, cache_key[p], result[p], t))

\* The response has been sent; the handler's locals are gone.
Return(p) ==
    /\ pc[p] = "done"
    /\ pc' = [pc EXCEPT ![p] = "idle"]
    /\ req' = [req EXCEPT ![p] = None]
    /\ cache_key' = [cache_key EXCEPT ![p] = None]
    /\ cached_result' = [cached_result EXCEPT ![p] = None]
    /\ result' = [result EXCEPT ![p] = None]
    /\ resp' = [resp EXCEPT ![p] = None]
    /\ UNCHANGED <<cache, now, lastPut, started>>
    /\ UNCHANGED searchVars
    /\ UNCHANGED hospitalVars

Next ==
    \/ \E p \in Procs :
         \/ ask_begin(p) \/ ask_lookup(p) \/ ask_compute(p) \/ ask_store(p)
         \/ find_hospitals_begin(p) \/ find_hospitals_lookup(p)
         \/ find_hospitals_compute(p) \/ find_hospitals_store(p)
         \/ get_news_begin(p) \/ get_news_lookup(p)
         \/ get_news_compute(p) \/ get_news_store(p)
         \/ get_realtime_news_begin(p) \/ get_realtime_news_lookup(p)
         \/ get_realtime_news_compute(p) \/ get_realtime_news_store(p)
         \/ Return(p)

Spec == Init /\ [][Next]_vars

\* /ask alone, with the questions of AskQuestions.
AskNext ==
    \E p \in Procs :
      \/ ask_receive(p) \/ ask_lookup(p) \/ ask_compute(p) \/ ask_store(p)
      \/ Return(p)

AskSpec == Init /\ [][AskNext]_vars

(***************************************************************************)
(* /health-centers: find_health_centers and get_nearest_health_centers.    *)
(***************************************************************************)
HCResponse(code, error, centers, route, radius) ==
    [code |-> code, error |-> error, centers |-> centers, route |-> route,
     radius |-> radius]

\* A provider call answers with at most MaxReplies non-empty lists per search.
ProviderReplies == IF replies < MaxReplies THEN Replies ELSE {<<>>}

Counted(data) == IF data = <<>> THEN replies ELSE replies + 1

\* Where the search stands once the bounding-box loop is left.
after_loop(places) == IF need_fallback(places) THEN "reverse" ELSE "rank"

\* Where the loop stands after the query query_idx of radius radius_idx,
\* places being all_results as that query leaves it.
after_query(places) ==
    LET radii == search_radii(hc_req.max_distance) IN
    IF query_idx < NumQueries
    THEN [pc |-> "bbox", radius_idx |-> radius_idx, query_idx |-> query_idx + 1]
    ELSE IF stop_after_radius(places, radii[radius_idx])
    THEN [pc |-> after_loop(places), radius_idx |-> radius_idx, query_idx |-> query_idx]
    ELSE IF radius_idx < Len(radii) /\ ~stop_before_radius(places, hc_req.max_results)
    THEN [pc |-> "bbox", radius_idx |-> radius_idx + 1, query_idx |-> 1]
    ELSE [pc |-> after_loop(places), radius_idx |-> radius_idx, query_idx |-> query_idx]

\* The handler reads and checks the request and enters the search.
hc_begin ==
    /\ hc_pc = "idle"
    /\ \E d \in HCInputs :
         /\ hc_req' = d
         /\ IF \/ d.latitude = NoNumber \/ d.longitude = NoNumber
               \/ d.latitude[1] = 0 \/ d.longitude[1] = 0
            THEN /\ hc_resp' = HCResponse(400, "Latitude and longitude are required",
                                          <<>>, None, NoNumber)
                 /\ hc_pc' = "done"
            ELSE IF \/ ~(-9000000 <= d.latitude[1] /\ d.latitude[1] <= 9000000)
                    \/ ~(-18000000 <= d.longitude[1] /\ d.longitude[1] <= 18000000)
            THEN /\ hc_resp' = HCResponse(400, "Invalid coordinates provided",
                                          <<>>, None, NoNumber)
                 /\ hc_pc' = "done"
            ELSE /\ hc_pc' = IF stop_before_radius(<<>>, d.max_results)
                             THEN after_loop(<<>>) ELSE "bbox"
                 /\ UNCHANGED hc_resp
    /\ UNCHANGED <<radius_idx, query_idx, all_results, address, hc_ret, calls,
                   replies, matcher_calls>>
    /\ UNCHANGED pause
    /\ UNCHANGED cacheVars
    /\ UNCHANGED hospitalVars

\* One bounding-box query of the current radius, and the loop bookkeeping
\* that follows it.
bbox_step(data, sleep) ==
    LET places == all_results \o data
        pos == after_query(places)
    IN /\ all_results' = places
       /\ replies' = Counted(data)
       /\ pause' = sleep
       /\ calls' = [calls EXCEPT !.bbox = @ + 1, !.bbox_found = @ + Len(data)]
       /\ hc_pc' = pos.pc
       /\ radius_idx' = pos.radius_idx
       /\ query_idx' = pos.query_idx
       /\ UNCHANGED <<hc_req, address, hc_ret, hc_resp, matcher_calls>>
       /\ UNCHANGED cacheVars
       /\ UNCHANGED hospitalVars

bbox_query ==
    /\ hc_pc = "bbox"
    /\ \/ \E data \in ProviderReplies : bbox_step(data, 15)  \* 200: sleep(0.15)
       \/ bbox_step(<<>>, 100)                               \* 429: sleep(1)
       \/ bbox_step(<<>>, 0)                                 \* another status
       \/ bbox_step(<<>>, 0)                                 \* an exception

\* The reverse geocode of the origin that opens the locality stage.
reverse_geocode ==
    /\ hc_pc = "reverse"
    /\ calls' = [calls EXCEPT !.reverse = @ + 1]
    /\ pause' = 0
    /\ \/ \E a \in Addresses :                            \* status 200
            /\ address' = a
            /\ hc_pc' = IF FirstOf(a.city, a.town, a.village, a.hamlet) # ""
                        THEN "city"
                        ELSE IF need_state_search(a.state, all_results)
                        THEN "state" ELSE "rank"
       \/ /\ hc_pc' = "rank"                              \* another status
          /\ UNCHANGED address
       \/ /\ hc_pc' = "rank"                              \* an exception
          /\ UNCHANGED address
    /\ UNCHANGED <<hc_req, radius_idx, query_idx, all_results, hc_ret, hc_resp,
                   replies, matcher_calls>>
    /\ UNCHANGED cacheVars
    /\ UNCHANGED hospitalVars

\* The search by the name of the city, town, village or hamlet.
city_search ==
    /\ hc_pc = "city"
    /\ calls' = [calls EXCEPT !.city = @ + 1]
    /\ pause' = 0
    /\ \/ \E data \in ProviderReplies :                   \* status 200
            /\ all_results' = all_results \o data
            /\ replies' = Counted(data)
            /\ hc_pc' = IF need_state_search(address.state, all_results \o data)
                        THEN "state" ELSE "rank"
       \/ /\ hc_pc' = IF need_state_search(address.state, all_results)
                      THEN "state" ELSE "rank"            \* another status
          /\ UNCHANGED <<all_results, replies>>
       \/ /\ hc_pc' = "rank"                              \* an exception
          /\ UNCHANGED <<all_results, replies>>
    /\ UNCHANGED <<hc_req, radius_idx, query_idx, address, hc_ret, hc_resp,
                   matcher_calls>>
    /\ UNCHANGED cacheVars
    /\ UNCHANGED hospitalVars

\* The search by the name of the state.
state_search ==
    /\ hc_pc = "state"
    /\ calls' = [calls EXCEPT !.state = @ + 1]
    /\ pause' = 0
    /\ hc_pc' = "rank"
    /\ \/ \E data \in ProviderReplies :                   \* status 200
            /\ all_results' = all_results \o data
            /\ replies' = Counted(data)
       \/ UNCHANGED <<all_results, replies>>              \* no data
    /\ UNCHANGED <<hc_req, radius_idx, query_idx, address, hc_ret, hc_resp,
                   matcher_calls>>
    /\ UNCHANGED cacheVars
    /\ UNCHANGED hospitalVars

\* get_nearest_health_centers returns: the error value or the ranked list.
search_return ==
    /\ hc_pc = "rank"
    /\ hc_ret' = search_result(all_results, hc_req.latitude[1], hc_req.longitude[1],
                               hc_req.max_distance, hc_req.max_results)
    /\ hc_pc' = "returned"
    /\ UNCHANGED <<hc_req, radius_idx, query_idx, all_results, address, hc_resp,
                   calls, replies, matcher_calls>>
    /\ UNCHANGED pause
    /\ UNCHANGED cacheVars
    /\ UNCHANGED hospitalVars

\* The handler passes the error value of the search on, with status 404.
respond_error ==
    /\ hc_pc = "returned" /\ hc_ret.kind = "error"
    /\ hc_resp' = HCResponse(404,
           "No health centers found nearby. Please try expanding your search radius.",
           <<>>, None, NoNumber)
    /\ hc_pc' = "done"
    /\ UNCHANGED <<hc_req, radius_idx, query_idx, all_results, address, hc_ret,
                   calls, replies, matcher_calls>>
    /\ UNCHANGED pause
    /\ UNCHANGED cacheVars
    /\ UNCHANGED hospitalVars

\* The handler answers an empty list with status 404 and the suggestion to
\* search beyond max_distance km.
respond_empty ==
    /\ hc_pc = "returned" /\ hc_ret.kind = "list" /\ hc_ret.items = <<>>
    /\ hc_resp' = HCResponse(404, "No health centers found nearby", <<>>, None,
                             <<hc_req.max_distance>>)
    /\ hc_pc' = "done"
    /\ UNCHANGED <<hc_req, radius_idx, query_idx, all_results, address, hc_ret,
                   calls, replies, matcher_calls>>
    /\ UNCHANGED pause
    /\ UNCHANGED cacheVars
    /\ UNCHANGED hospitalVars

\* get_route, as far as the request it sends goes: the route asked for runs
\* from (start_lat, start_lon) to (end_lat, end_lon); found tells whether
\* the router knows one ("No route found" otherwise).
get_route(start_lat, start_lon, end_lat, end_lon, found) ==
    [start |-> <<start_lat, start_lon>>, end |-> <<end_lat, end_lon>>,
     found |-> found]

\* The handler fetches the route to the first center and answers.
respond_with_route ==
    /\ hc_pc = "returned" /\ hc_ret.kind = "list" /\ hc_ret.items # <<>>
    /\ calls' = [calls EXCEPT !.route = @ + 1]
    /\ LET first_center == hc_ret.items[1] IN
       \/ \E found \in BOOLEAN :
            hc_resp' = HCResponse(200, None, hc_ret.items,
                           get_route(hc_req.latitude[1], hc_req.longitude[1],
                                     first_center.latitude, first_center.longitude,
                                     found),
                           <<hc_req.max_distance>>)
       \/ hc_resp' = HCResponse(500,
              "Internal server error occurred while searching for health centers",
              <<>>, None, NoNumber)
    /\ hc_pc' = "done"
    /\ UNCHANGED <<hc_req, radius_idx, query_idx, all_results, address, hc_ret,
                   replies, matcher_calls>>
    /\ UNCHANGED pause
    /\ UNCHANGED cacheVars
    /\ UNCHANGED hospitalVars

SearchNext ==
    \/ hc_begin \/ bbox_query \/ reverse_geocode \/ city_search \/ state_search
    \/ search_return \/ respond_error \/ respond_empty \/ respond_with_route

SearchSpec == Init /\ [][SearchNext]_vars

(***************************************************************************)
(* /hospitals alone: find_hospitals from the request to the response, its  *)
(* three sources followed one by one.                                      *)
(***************************************************************************)
FHResponse(code, error, body) == [code |-> code, error |-> error, body |-> body]

NotFound404 == FHResponse(404, "No hospitals found in the specified location", None)

Consulted(source, found) == [source |-> source, found |-> found]

\* The handler reads and checks the request d, builds the cache key and
\* reads the cache at the clock reading t.
fh_request(d, t) ==
    LET r == [kind |-> "hospitals", condition |-> Strip(d.condition),
              location |-> Strip(d.location), specialty |-> Strip(d.specialty),
              latitude |-> d.latitude, longitude |-> d.longitude]
        key == get_cache_key(
                   Str(r.condition) \o "_" \o Str(r.location) \o "_"
                   \o Str(r.specialty) \o "_" \o PyStr(r.latitude) \o "_"
                   \o PyStr(r.longitude), "hospitals")
    IN /\ fh_req' = r
       /\ IF r.location = <<>>
          THEN /\ fh_resp' = FHResponse(400, "Location is required", None)
               /\ fh_pc' = "done"
               /\ UNCHANGED <<fh_key, cache, now>>
          ELSE IF /\ r.latitude # NoNumber /\ r.longitude # NoNumber
                  /\ \/ ~(-9000000 <= r.latitude[1] /\ r.latitude[1] <= 9000000)
                     \/ ~(-18000000 <= r.longitude[1] /\ r.longitude[1] <= 18000000)
          THEN /\ fh_resp' = FHResponse(400, "Invalid coordinates provided", None)
               /\ fh_pc' = "done"
               /\ UNCHANGED <<fh_key, cache, now>>
          ELSE /\ Clock(t)
               /\ fh_key' = key
               /\ cache' = get_from_cache(cache, key, t).cache
               \* if cached_result: the read returned the entry it left in
               \* the dict (a result is a non-empty dict, hence truthy)
               /\ IF key \in DOMAIN get_from_cache(cache, key, t).cache
                  THEN /\ fh_resp' = FHResponse(200, None,
                                         get_from_cache(cache, key, t).ret)
                       /\ fh_pc' = "done"
                  ELSE /\ fh_pc' = "match"
                       /\ UNCHANGED fh_resp
       /\ UNCHANGED <<matched, fh_result, fh_sources>>
       /\ UNCHANGED <<pc, req, cache_key, cached_result, result, resp, lastPut>>
       /\ UNCHANGED searchVars

fh_begin ==
    /\ fh_pc = "idle"
    /\ \E d \in FHInputs, t \in TimePoints : fh_request(d, t)
    /\ UNCHANGED started

\* A request of the specification of the /hospitals cache.
fh_receive ==
    /\ fh_pc = "idle" /\ started < MaxRequests
    /\ \E d \in KeyInputs, t \in TimePoints : fh_request(d, t)
    /\ started' = started + 1

\* The first source: the static directory matcher.
fh_match ==
    /\ fh_pc = "match"
    /\ LET found == find_hospitals_by_condition_location(
                        fh_req.condition, fh_req.location, fh_req.specialty,
                        fh_req.latitude, fh_req.longitude)
       IN /\ matched' = found
          /\ fh_result' = found
          /\ fh_sources' = Append(fh_sources, Consulted("matcher", Len(found.hospitals)))
          /\ fh_pc' = IF need_location_fallback(found) THEN "fallback" ELSE "store"
    /\ UNCHANGED <<fh_req, fh_key, fh_resp>>
    /\ UNCHANGED cacheVars
    /\ UNCHANGED searchVars

\* The second source: the entries whose city or state holds the location.
fh_fallback ==
    /\ fh_pc = "fallback"
    /\ LET found == location_fallback(fh_req.location, fh_req.latitude,
                                      fh_req.longitude)
       IN /\ fh_sources' = Append(fh_sources, Consulted("fallback", found.totalFound))
          /\ IF found.totalFound > 0
             THEN /\ fh_result' = found
                  /\ fh_pc' = "store"
                  /\ UNCHANGED fh_resp
             ELSE IF Truthy(fh_req.latitude) /\ Truthy(fh_req.longitude)
             THEN /\ fh_pc' = "nearby"
                  /\ UNCHANGED <<fh_result, fh_resp>>
             ELSE /\ fh_resp' = NotFound404
                  /\ fh_pc' = "done"
                  /\ UNCHANGED fh_result
    /\ UNCHANGED <<fh_req, fh_key, matched>>
    /\ UNCHANGED cacheVars
    /\ UNCHANGED searchVars

\* The third source: the health centers near the coordinates, converted.
fh_nearby ==
    /\ fh_pc = "nearby"
    /\ \E places \in NearbyCandidates :
         LET nearby_centers == search_result(places, fh_req.latitude[1],
                                             fh_req.longitude[1], 50, 10)
             converted == IF nearby_centers.kind = "list"
                          THEN converted_hospitals(nearby_centers.items, 1)
                          ELSE <<>>
         IN /\ fh_sources' = Append(fh_sources, Consulted("nearby", Len(converted)))
            /\ IF converted # <<>>
               THEN /\ fh_result' = HospitalResult(Slice(converted, 6), <<>>,
                                                   Len(converted), fh_req.location,
                                                   FALSE, TRUE)
                    /\ fh_pc' = "store"
                    /\ UNCHANGED fh_resp
               ELSE /\ fh_resp' = NotFound404
                    /\ fh_pc' = "done"
                    /\ UNCHANGED fh_result
    /\ UNCHANGED <<fh_req, fh_key, matched>>
    /\ UNCHANGED cacheVars
    /\ UNCHANGED searchVars

\* The result is cached and returned.
fh_store ==
    /\ fh_pc = "store"
    /\ \E t \in TimePoints :
         /\ Clock(t)
         /\ cache' = set_cache(cache, fh_key, fh_result, t)
         /\ lastPut' = DictSet(lastPut, fh_key,
                               [item |-> fh_result, timestamp |-> t,
                                by |-> 0, kind |-> "hospitals",
                                request |-> fh_req])
    /\ fh_resp' = FHResponse(200, None, fh_result)
    /\ fh_pc' = "done"
    /\ UNCHANGED <<fh_req, fh_key, matched, fh_result, fh_sources>>
    /\ UNCHANGED <<pc, req, cache_key, cached_result, result, resp, started>>
    /\ UNCHANGED searchVars

HospitalNext == fh_begin \/ fh_match \/ fh_fallback \/ fh_nearby \/ fh_store

HospitalSpec == Init /\ [][HospitalNext]_vars

\* The response has been sent; the handler's locals are gone.
fh_return ==
    /\ fh_pc = "done"
    /\ fh_pc' = "idle"
    /\ fh_req' = None
    /\ fh_key' = None
    /\ matched' = None
    /\ fh_result' = None
    /\ fh_resp' = None
    /\ fh_sources' = <<>>
    /\ UNCHANGED cacheVars
    /\ UNCHANGED searchVars

\* /hospitals serving one request after another over the shared cache.
HospitalCacheNext ==
    \/ fh_receive \/ fh_match \/ fh_fallback \/ fh_nearby \/ fh_store
    \/ fh_return

HospitalCacheSpec == Init /\ [][HospitalCacheNext]_vars

(***************************************************************************)
(* The cache reads of concurrent requests, statement by statement: the     *)
(* handlers of /ask and /news-realtime run in threads of one process and   *)
(* a thread may be suspended between any two statements of                  *)
(* get_from_cache (and of the inline check of get_realtime_news).          *)
(***************************************************************************)

\* The dict after earlier requests stored an answer and the news at time 0.
StoredEarlier ==
    realtime_cache_store(
        set_cache(<<>>, get_cache_key(Str(Q_fever), "health"), "r1", 0),
        get_cache_key("English", "realtime_news"), "r1", 0)

RaceInit ==
    /\ cache = StoredEarlier
    /\ now = 0
    /\ pc = [p \in Procs |-> "idle"]
    /\ req = [p \in Procs |-> None]
    /\ cache_key = [p \in Procs |-> None]
    /\ cached_result = [p \in Procs |-> None]
    /\ result = [p \in Procs |-> None]
    /\ resp = [p \in Procs |-> None]
    /\ lastPut = [k \in DOMAIN StoredEarlier |->
                    [item |-> StoredEarlier[k][1], timestamp |-> StoredEarlier[k][2],
                     by |-> 0,
                     kind |-> IF k = get_cache_key("English", "realtime_news")
                              THEN "realtime_news" ELSE "health"]]
    /\ started = 0
    /\ hc_pc = "idle"
    /\ hc_req = None
    /\ radius_idx = 1
    /\ query_idx = 1
    /\ all_results = <<>>
    /\ address = None
    /\ hc_ret = None
    /\ hc_resp = None
    /\ calls = [bbox |-> 0, bbox_found |-> 0, reverse |-> 0, city |-> 0,
                state |-> 0, route |-> 0]
    /\ replies = 0
    /\ matcher_calls = 0
    /\ pause = 0
    /\ fh_pc = "idle"
    /\ fh_req = None
    /\ fh_key = None
    /\ matched = None
    /\ fh_result = None
    /\ fh_resp = None
    /\ fh_sources = <<>>

\* The duration the read of an endpoint compares the age of an entry with.
duration_of(kind) ==
    IF kind = "realtime_news" THEN NEWS_CACHE_DURATION ELSE CACHE_DURATION

\* A statement of the read of p leaves p at the statement next.
Proceed(p, next) ==
    /\ pc' = [pc EXCEPT ![p] = next]
    /\ UNCHANGED <<cache, now, req, cache_key, cached_result, result, resp,
                   lastPut, started>>
    /\ UNCHANGED searchVars
    /\ UNCHANGED hospitalVars

\* A statement of the read of p raises KeyError, which the handler's
\* except branch answers with status 500.
RaiseKeyError(p) == Fail(p, Response(500, "error", "KeyError"))

\* if key in cache
cache_test(p) ==
    /\ pc[p] = "lookup"
    /\ IF cache_key[p] \in DOMAIN cache
       THEN Proceed(p, "read")
       ELSE Proceed(p, "compute")

\* item, timestamp = cache[key]
cache_read(p) ==
    /\ pc[p] = "read"
    /\ IF cache_key[p] \in DOMAIN cache
       THEN /\ cached_result' = [cached_result EXCEPT ![p] = cache[cache_key[p]]]
            /\ pc' = [pc EXCEPT ![p] = "compare"]
            /\ UNCHANGED <<cache, now, req, cache_key, result, resp, lastPut,
                           started>>
            /\ UNCHANGED searchVars
            /\ UNCHANGED hospitalVars
       ELSE RaiseKeyError(p)

\* if time.time() - timestamp < duration: return item
cache_compare(p) ==
    /\ pc[p] = "compare"
    /\ \E t \in TimePoints :
         /\ Clock(t)
         /\ IF t - cached_result[p][2] < duration_of(req[p].kind)
            THEN /\ resp' = [resp EXCEPT ![p] =
                                Response(200, "cached", cached_result[p][1])]
                 /\ pc' = [pc EXCEPT ![p] = "done"]
            ELSE /\ pc' = [pc EXCEPT ![p] = "delete"]
                 /\ UNCHANGED resp
    /\ UNCHANGED <<cache, req, cache_key, cached_result, result, lastPut, started>>
    /\ UNCHANGED searchVars
    /\ UNCHANGED hospitalVars

\* else: del cache[key]
cache_delete(p) ==
    /\ pc[p] = "delete"
    /\ IF cache_key[p] \in DOMAIN cache
       THEN /\ cache' = DictDel(cache, cache_key[p])
            /\ pc' = [pc EXCEPT ![p] = "compute"]
            /\ UNCHANGED <<now, req, cache_key, cached_result, result, resp,
                           lastPut, started>>
            /\ UNCHANGED searchVars
            /\ UNCHANGED hospitalVars
       ELSE RaiseKeyError(p)

RaceNext ==
    \E p \in Procs :
      \/ ask_begin(p) \/ get_realtime_news_begin(p)
      \/ cache_test(p) \/ cache_read(p) \/ cache_compare(p) \/ cache_delete(p)
      \/ ask_compute(p) \/ ask_store(p)
      \/ get_realtime_news_compute(p) \/ get_realtime_news_store(p)
      \/ Return(p)

RaceSpec == RaceInit /\ [][RaceNext]_vars

(***************************************************************************)
(* Properties of the response cache, checked under Spec.                   *)
(***************************************************************************)
Busy(p) == pc[p] \in {"lookup", "compute", "store"}

ReadStep(p) == pc[p] = "lookup" /\ pc'[p] # "lookup"

Lifetime(kind) == IF kind = "realtime_news" THEN 300 ELSE 3600

\* C1: a read of a key returns the value of the latest store under that key
\* while the entry is younger than the lifetime of its endpoint kind (3600 s,
\* 300 s for realtime news), and returns nothing once the age has reached
\* that lifetime; a hit is answered with exactly that value.
C1_ReadReturnsLatestPut ==
    [][\A p \in Procs :
         ReadStep(p) =>
           LET k == cache_key[p]
               expected ==
                   IF k \in DOMAIN lastPut
                      /\ now' - lastPut[k].timestamp < Lifetime(req[p].kind)
                   THEN lastPut[k].item
                   ELSE None
           IN /\ cached_result'[p] = expected
              /\ expected # None => resp'[p] = Response(200, "cached", expected)
              /\ expected = None => pc'[p] = "compute"]_vars

\* A realtime-news read is served from an entry one second short of 300 s.
C1_Witness ==
    \E p \in Procs :
        /\ pc[p] = "done" /\ req[p].kind = "realtime_news"
        /\ resp[p].tag = "cached"
        /\ now - lastPut[cache_key[p]].timestamp = 299

\* C2: an entry leaves the cache only in a read of its own key that finds it
\* expired; such a read removes it, a read that finds it fresh keeps it, and
\* every step leaves the entries of all other keys as they were.
C2_OnlyExpiredReadEvicts ==
    [][/\ \A k \in DOMAIN cache :
            k \notin DOMAIN cache' =>
              \E p \in Procs :
                  /\ ReadStep(p) /\ cache_key[p] = k
                  /\ now' - cache[k][2] >= Lifetime(req[p].kind)
       /\ \A p \in Procs :
            ReadStep(p) =>
              LET k == cache_key[p] IN
              /\ \A j \in (DOMAIN cache) \ {k} :
                     j \in DOMAIN cache' /\ cache'[j] = cache[j]
              /\ DOMAIN cache' \subseteq DOMAIN cache
              /\ k \in DOMAIN cache =>
                   IF now' - cache[k][2] >= Lifetime(req[p].kind)
                   THEN k \notin DOMAIN cache'
                   ELSE k \in DOMAIN cache' /\ cache'[k] = cache[k]]_vars

\* A read has just found its key expired and removed the entry.
C2_Witness ==
    \E p \in Procs :
        /\ pc[p] = "compute"
        /\ cache_key[p] \in DOMAIN lastPut
        /\ cache_key[p] \notin DOMAIN cache
        /\ now - lastPut[cache_key[p]].timestamp >= Lifetime(req[p].kind)

\* C3: when two requests for one key have both missed, recomputed and
\* stored, each has answered with its own result, and the key's single
\* entry is the one written by the later of the two stores (for as long as
\* that entry has not expired).
C3_LastWriterWins ==
    \A p, q \in Procs :
        ( /\ p # q /\ pc[p] = "done" /\ pc[q] = "done"
          /\ resp[p].tag = "result" /\ resp[q].tag = "result"
          /\ cache_key[p] = cache_key[q]
          /\ lastPut[cache_key[q]].by = q )
        => LET k == cache_key[q] IN
           /\ resp[p] = Response(200, "result", result[p])
           /\ resp[q] = Response(200, "result", result[q])
           /\ lastPut[k].item = result[q]
           /\ now - lastPut[k].timestamp < Lifetime(req[q].kind)
                => k \in DOMAIN cache
                   /\ cache[k] = <<result[q], lastPut[k].timestamp>>

\* Both requests missed before either stored (no time has passed, so a read
\* after the first store would have hit), and they computed different values.
C3_Witness ==
    \E p, q \in Procs :
        /\ p # q /\ pc[p] = "done" /\ pc[q] = "done"
        /\ resp[p].tag = "result" /\ resp[q].tag = "result"
        /\ cache_key[p] = cache_key[q]
        /\ lastPut[cache_key[q]].by = q
        /\ result[p] # result[q]
        /\ now = 0

\* C4: keys built with different prefixes differ whatever the texts (a fact
\* about get_cache_key alone, evaluated once, in the initial state), so the
\* entry a handler finds under its key was stored by its own endpoint kind.
C4_PrefixesNeverCollide ==
    /\ started = 0 =>
           \A t1, t2 \in HashedTexts : \A p1, p2 \in Prefixes :
               p1 # p2 => get_cache_key(t1, p1) # get_cache_key(t2, p2)
    /\ \A p \in Procs :
           (Busy(p) /\ cache_key[p] \in DOMAIN lastPut)
           => lastPut[cache_key[p]].kind = req[p].kind
    /\ \A p \in Procs :
           (pc[p] = "done" /\ resp[p].tag = "cached")
           => lastPut[cache_key[p]].kind = req[p].kind

\* News and realtime news, asked with the same language, both hold an entry.
C4_Witness ==
    \E k1, k2 \in DOMAIN cache :
        /\ lastPut[k1].kind = "news" /\ lastPut[k2].kind = "realtime_news"
        /\ k1 = get_cache_key("English", "news")
        /\ k2 = get_cache_key("English", "realtime_news")

(***************************************************************************)
(* Claims about the health-center search.                                  *)
(***************************************************************************)
\* get_nearest_health_centers has been entered and has left its searches.
SearchOver ==
    \/ hc_pc \in {"rank", "returned"}
    \/ hc_pc = "done" /\ hc_resp.code # 400

\* get_nearest_health_centers has returned a list.
ListReturned ==
    /\ SearchOver /\ hc_pc # "rank"
    /\ hc_ret.kind = "list"

Origin == <<hc_req.latitude[1], hc_req.longitude[1]>>

WellFormed(place) == place.lat # NoNumber /\ place.lon # NoNumber

RoundedCoordinates(lat, lon) == <<Round4(lat), Round4(lon)>>

\* The candidate i of all_results is the first with its rounded coordinates.
FirstOfItsCoordinates(i) ==
    /\ WellFormed(all_results[i])
    /\ \A j \in 1..(i - 1) :
         WellFormed(all_results[j]) =>
           RoundedCoordinates(all_results[j].lat[1], all_results[j].lon[1])
             # RoundedCoordinates(all_results[i].lat[1], all_results[i].lon[1])

InRange(lat, lon) ==
    calculate_distance(Origin[1], Origin[2], lat, lon)
      <= hc_req.max_distance * 1000000

\* The candidates that neither deduplication nor the distance filter drops.
Eligible ==
    { i \in 1..Len(all_results) :
        /\ FirstOfItsCoordinates(i)
        /\ InRange(all_results[i].lat[1], all_results[i].lon[1]) }

\* C5: the stages of the search are ordered, and a later one starts only
\* when the earlier ones collected nothing: the reverse geocode, the city
\* search and the state search are each sent only while all_results is
\* empty, the city and state searches only after the reverse geocode, and
\* no bounding-box query follows the reverse geocode, no city search the
\* state search.
C5_StagesOrdered ==
    [][ /\ calls'.reverse > calls.reverse =>
             /\ all_results = <<>> /\ calls.bbox_found = 0
             /\ calls.reverse = 0 /\ calls.city = 0 /\ calls.state = 0
        /\ calls'.city > calls.city =>
             /\ all_results = <<>>
             /\ calls.reverse = 1 /\ calls.city = 0 /\ calls.state = 0
        /\ calls'.state > calls.state =>
             /\ all_results = <<>>
             /\ calls.reverse = 1 /\ calls.state = 0
        /\ calls'.bbox > calls.bbox =>
             calls.reverse = 0 /\ calls.city = 0 /\ calls.state = 0
      ]_vars

C5_Witness ==
    /\ hc_pc = "rank"
    /\ calls.bbox > 0 /\ calls.reverse = 1 /\ calls.city = 1 /\ calls.state = 1
    /\ all_results # <<>>

C7_NotFoundCarriesParameters ==
    (hc_pc = "done" /\ hc_resp.code = 404)
      => hc_resp.radius = <<hc_req.max_distance>>

\* C8: when all_results is empty after every stage, the search returns the
\* error value, never an empty list, and the handler answers 404.
C8_EmptyCandidatesGiveError ==
    (SearchOver /\ hc_pc # "rank" /\ all_results = <<>>) =>
        /\ hc_ret = NoResults
        /\ hc_ret # ResultList(<<>>)
        /\ (hc_pc = "done" => hc_resp.code = 404 /\ hc_resp.centers = <<>>)

C8_Witness ==
    /\ hc_pc = "done"
    /\ all_results = <<>>
    /\ calls.reverse = 1
    /\ hc_ret = NoResults
    /\ hc_resp.code = 404

\* C9: the returned list holds no two facilities with the same coordinates
\* rounded to 4 decimals, and each facility in it is the first candidate of
\* all_results with its rounded coordinates.
C9_DedupFirstWins ==
    ListReturned =>
      LET items == hc_ret.items IN
        /\ \A i, j \in 1..Len(items) :
             i # j => RoundedCoordinates(items[i].latitude, items[i].longitude)
                        # RoundedCoordinates(items[j].latitude, items[j].longitude)
        /\ \A i \in 1..Len(items) :
             \E k \in 1..Len(all_results) :
               /\ FirstOfItsCoordinates(k)
               /\ all_results[k].place_id = items[i].place_id
               /\ all_results[k].lat[1] = items[i].latitude
               /\ all_results[k].lon[1] = items[i].longitude

C9_Witness ==
    /\ ListReturned
    /\ \E i, j \in 1..Len(all_results) :
         i < j /\ all_results[i] = P_annex /\ all_results[j] = P_city
    /\ \E i \in 1..Len(hc_ret.items) : hc_ret.items[i].place_id = P_annex.place_id
    /\ \A i \in 1..Len(hc_ret.items) : hc_ret.items[i].place_id # P_city.place_id

\* C10: every facility returned lies within max_distance of the origin,
\* whichever stage found it; the candidates within max_distance that are the
\* first of their rounded coordinates are all returned unless the list is
\* cut to max_results, and then the ones cut are no nearer than the ones
\* kept.
C10_WithinMaxDistance ==
    ListReturned =>
      LET items == hc_ret.items
          kept == { k \in Eligible :
                      \E i \in 1..Len(items) :
                        items[i].place_id = all_results[k].place_id }
      IN /\ \A i \in 1..Len(items) : InRange(items[i].latitude, items[i].longitude)
         /\ \A i \in 1..Len(items) :
              \E k \in Eligible : all_results[k].place_id = items[i].place_id
         /\ Len(items) = IF Cardinality(Eligible) < hc_req.max_results
                         THEN Cardinality(Eligible) ELSE hc_req.max_results
         /\ Cardinality(Eligible) <= hc_req.max_results => kept = Eligible
         /\ \A k \in Eligible \ kept :
              \A i \in 1..Len(items) :
                items[i].distance
                  <= Round2(calculate_distance(Origin[1], Origin[2],
                                               all_results[k].lat[1],
                                               all_results[k].lon[1]))

C10_Witness ==
    /\ ListReturned
    /\ calls.bbox_found = 0 /\ calls.city = 1
    /\ hc_req.max_distance = 25
    /\ \E k \in 1..Len(all_results) : all_results[k] = P_out
    /\ \E i \in 1..Len(hc_ret.items) : hc_ret.items[i].place_id = P_far.place_id
    /\ \A i \in 1..Len(hc_ret.items) : hc_ret.items[i].place_id # P_out.place_id

\* The place of a returned facility in all_results: the first candidate with
\* its place_id.
Discovery(item) ==
    CHOOSE k \in 1..Len(all_results) :
      /\ all_results[k].place_id = item.place_id
      /\ \A j \in 1..(k - 1) : all_results[j].place_id # item.place_id

\* C11: the returned list is in ascending order of distance, and facilities
\* at the same distance stand in the order in which they were discovered.
C11_AscendingStable ==
    ListReturned =>
      LET items == hc_ret.items IN
        \A i, j \in 1..Len(items) :
          i < j =>
            /\ items[i].distance <= items[j].distance
            /\ items[i].distance = items[j].distance
                 => Discovery(items[i]) < Discovery(items[j])

C11_Witness ==
    /\ ListReturned
    /\ all_results = <<P_far, P_south, P_north>>
    /\ Len(hc_ret.items) = 3
    /\ hc_ret.items[1].place_id = P_south.place_id
    /\ hc_ret.items[2].place_id = P_north.place_id
    /\ hc_ret.items[3].place_id = P_far.place_id

\* C12: a request with a latitude outside [-90, 90] or a longitude outside
\* [-180, 180] is answered 400 with the invalid-coordinate error, before any
\* provider call.
C12_OutOfRangeRejected ==
    (/\ hc_pc # "idle"
     /\ hc_req.latitude # NoNumber /\ hc_req.longitude # NoNumber
     /\ \/ hc_req.latitude[1] < -9000000 \/ hc_req.latitude[1] > 9000000
        \/ hc_req.longitude[1] < -18000000 \/ hc_req.longitude[1] > 18000000)
      => /\ hc_pc = "done"
         /\ hc_resp.code = 400
         /\ hc_resp.error = "Invalid coordinates provided"
         /\ calls.bbox = 0 /\ calls.reverse = 0 /\ calls.city = 0
         /\ calls.state = 0 /\ calls.route = 0

\* C18: no failure of a provider call fails the request: a response other
\* than 200 (or the 400 of a bad request) is the 404 of a search that found
\* nothing at any stage.
C18_ProviderFailureNotPropagated ==
    (hc_pc = "done" /\ hc_resp.code \notin {200, 400})
      => /\ hc_resp.code = 404
         /\ hc_ret.items = <<>>

\* C20: the returned list holds at most max_results facilities: all the
\* deduplicated candidates within max_distance when they are that few,
\* otherwise max_results of them, none farther than one left out.
C20_NearestMaxResults ==
    (ListReturned /\ hc_req.max_results > 0) =>
      LET items == hc_ret.items
          out == { k \in Eligible :
                     \A i \in 1..Len(items) :
                       items[i].place_id # all_results[k].place_id }
      IN /\ Len(items) <= hc_req.max_results
         /\ Len(items) < hc_req.max_results => out = {}
         /\ Len(items) + Cardinality(out) = Cardinality(Eligible)
         /\ \A k \in out : \A i \in 1..Len(items) :
              items[i].distance
                <= Round2(calculate_distance(Origin[1], Origin[2],
                                             all_results[k].lat[1],
                                             all_results[k].lon[1]))

C20_Witness ==
    /\ ListReturned
    /\ hc_req.max_results = 2 /\ hc_req.max_distance = 50
    /\ all_results = <<P_far, P_south, P_north>>
    /\ Len(hc_ret.items) = 2
    /\ hc_ret.items[1].place_id = P_south.place_id
    /\ hc_ret.items[2].place_id = P_north.place_id

(***************************************************************************)
(* Claims about /ask.                                                      *)
(***************************************************************************)
\* The question holds one of the healthcare keywords.
OnTopic(question) ==
    \E j \in 1..Len(healthcare_keywords) :
      Contains(Lower(question), healthcare_keywords[j])

\* The question asks for a facility near the user: a location keyword and a
\* hospital keyword.
LocationIntent(question) ==
    /\ AnyIn(location_keywords, Lower(question))
    /\ AnyIn(hospital_keywords, Lower(question))

AppointmentIntent(question) == AnyIn(appointment_keywords, Lower(question))

\* The step in which the handler of p calls the language model: the answer
\* is computed, or the call raises.
ModelCalled(p) ==
    /\ pc[p] = "compute" /\ req[p].kind = "health"
    /\ \/ pc'[p] = "store"
       \/ pc'[p] = "done" /\ resp'[p].code = 500

\* C19: a request with a non-empty question that holds no healthcare keyword
\* ends at once with the canned refusal, the cache neither read nor written
\* and no language-model call made; the language model is called only for a
\* question with a healthcare keyword that missed the cache and has neither
\* a location intent nor an appointment intent.
C19_OffTopicRefused ==
    [][ \A p \in Procs :
          /\ ( /\ pc[p] = "idle" /\ pc'[p] # "idle"
               /\ req'[p].kind = "health"
               /\ req'[p].question # <<>>
               /\ ~OnTopic(req'[p].question) )
               => /\ pc'[p] = "done"
                  /\ resp'[p] = Response(200, "refusal", None)
                  /\ cache_key'[p] = None /\ cached_result'[p] = None
                  /\ result'[p] = None
                  /\ cache' = cache /\ lastPut' = lastPut
          /\ ModelCalled(p)
               => /\ OnTopic(req[p].question)
                  /\ cache_key[p] = get_cache_key(Str(req[p].question), "health")
                  /\ cached_result[p] = None
                  /\ ~LocationIntent(req[p].question)
                  /\ ~AppointmentIntent(req[p].question)
      ]_vars

C19_Witness ==
    \E p, q \in Procs :
      /\ pc[p] = "done" /\ req[p].kind = "health" /\ req[p].question = Q_hello
      /\ resp[p].tag = "refusal" /\ cache_key[p] = None
      /\ pc[q] = "store" /\ req[q].kind = "health"
      /\ req[q].question = Q_fever_nearby
      /\ cache = <<>>

(***************************************************************************)
(* Claims about /hospitals and the static directory matcher.               *)
(***************************************************************************)
SourceOrder == <<"matcher", "fallback", "nearby">>

\* The request carries both coordinates.
CoordinatesSupplied == fh_req.latitude # NoNumber /\ fh_req.longitude # NoNumber

\* C13: the sources are consulted in the order matcher, location fallback,
\* nearby health centers, a later one only when the earlier ones found no
\* hospital; the not-found response is given only when all three found
\* nothing, or the first two did and the request carried no coordinates.
C13_SourcesInOrder ==
    /\ Len(fh_sources) <= 3
    /\ \A i \in 1..Len(fh_sources) :
         /\ fh_sources[i].source = SourceOrder[i]
         /\ \A j \in 1..(i - 1) : fh_sources[j].found = 0
    /\ (fh_pc = "done" /\ fh_resp.code = 404) =>
         /\ \A i \in 1..Len(fh_sources) : fh_sources[i].found = 0
         /\ \/ Len(fh_sources) = 3
            \/ Len(fh_sources) = 2 /\ ~CoordinatesSupplied

\* The matcher has been called for the request.
Matched == fh_sources # <<>>

MappedOrSupplied == relevant_specialties(fh_req.condition, fh_req.specialty)

\* The entry has a specialty that holds one of the mapped or supplied ones.
HasRelevantSpecialty(hospital) ==
    \E i \in 1..Len(MappedOrSupplied) :
      \E j \in 1..Len(hospital.specialties) :
        Contains(Lower(hospital.specialties[j]), Lower(MappedOrSupplied[i]))

MatchesLocation(hospital) == location_match(hospital, Lower(fh_req.location))

HasCoordinates(hospital) ==
    hospital.latitude # NoNumber /\ hospital.longitude # NoNumber

\* C14 as stated: every entry the matcher returns matches the location or
\* has a mapped or supplied specialty, and totalFound counts exactly those
\* entries, also when no specialty is mapped or supplied.
C14_NeitherMatchExcluded ==
    Matched =>
      /\ \A i \in 1..Len(matched.hospitals) :
           MatchesLocation(matched.hospitals[i])
             \/ HasRelevantSpecialty(matched.hospitals[i])
      /\ matched.totalFound =
           Cardinality({ k \in 1..Len(HOSPITAL_DATABASE) :
                           MatchesLocation(HOSPITAL_DATABASE[k])
                             \/ HasRelevantSpecialty(HOSPITAL_DATABASE[k]) })

\* C14 amended: when a specialty is mapped or supplied, every entry returned
\* matches the location or has such a specialty, and totalFound counts
\* exactly those entries; when none is mapped and none supplied, every entry
\* of the directory counts as a match and totalFound is the size of the
\* directory.
C14_NeitherMatchExcludedWhenSpecialty ==
    Matched =>
      IF MappedOrSupplied # <<>>
      THEN /\ \A i \in 1..Len(matched.hospitals) :
                MatchesLocation(matched.hospitals[i])
                  \/ HasRelevantSpecialty(matched.hospitals[i])
           /\ matched.totalFound =
                Cardinality({ k \in 1..Len(HOSPITAL_DATABASE) :
                                MatchesLocation(HOSPITAL_DATABASE[k])
                                  \/ HasRelevantSpecialty(HOSPITAL_DATABASE[k]) })
      ELSE /\ matched.totalFound = Len(HOSPITAL_DATABASE)
           /\ Len(matched.hospitals) = 8

C14_Witness ==
    /\ Matched
    /\ fh_req.condition = T_heart /\ fh_req.location = T_Chennai
    /\ fh_req.specialty = <<>>
    /\ matched.totalFound = 7
    /\ \A i \in 1..Len(matched.hospitals) : matched.hospitals[i].id \notin {5, 6, 8}

\* C15: with coordinates supplied, the entries that have coordinates stand
\* in ascending distance from the caller and no entry without coordinates
\* stands ahead of one with coordinates.
C15_TrueDistanceOrder ==
    (Matched /\ Truthy(fh_req.latitude) /\ Truthy(fh_req.longitude)) =>
      LET hs == matched.hospitals
          Distance(h) == calculate_distance(fh_req.latitude[1], fh_req.longitude[1],
                                            h.latitude[1], h.longitude[1])
      IN \A i, j \in 1..Len(hs) :
           i < j =>
             /\ (HasCoordinates(hs[i]) /\ HasCoordinates(hs[j]))
                  => Distance(hs[i]) <= Distance(hs[j])
             /\ ~(~HasCoordinates(hs[i]) /\ HasCoordinates(hs[j]))

\* C16: the condition "chest pain" maps to a specialty list that holds
\* Cardiology, so suggestedSpecialty is not None.
C16_ChestPainCardiology ==
    (Matched /\ fh_req.condition = T_chest_pain) =>
      /\ \E i \in 1..Len(condition_specialties(Lower(fh_req.condition), 1)) :
           condition_specialties(Lower(fh_req.condition), 1)[i] = T_Cardiology
      /\ matched.suggestedSpecialty # <<>>

\* C17: without coordinates the matcher returns the entries with the highest
\* relevance scores in descending order, equal scores in table order; an
\* entry that matches the location and a mapped or supplied specialty stands
\* ahead of every entry that matches only one; for "heart" in "Chennai" the
\* first entry is the Chennai hospital with Cardiology.
C17_DescendingScore ==
    (Matched /\ ~CoordinatesSupplied) =>
      LET hs == matched.hospitals
          Both(h) == MatchesLocation(h) /\ HasRelevantSpecialty(h)
      IN /\ \A i, j \in 1..Len(hs) :
              i < j =>
                /\ hs[i].relevance_score >= hs[j].relevance_score
                /\ hs[i].relevance_score = hs[j].relevance_score
                     => hs[i].id < hs[j].id
                /\ ~(~Both(hs[i]) /\ Both(hs[j]))
         /\ Len(hs) = IF matched.totalFound < 8 THEN matched.totalFound ELSE 8
         /\ (fh_req.condition = T_heart /\ fh_req.location = T_Chennai) =>
              /\ hs # <<>>
              /\ hs[1].location = T_Chennai
              /\ \E j \in 1..Len(hs[1].specialties) :
                   hs[1].specialties[j] = T_Cardiology

C17_Witness ==
    /\ Matched /\ ~CoordinatesSupplied
    /\ fh_req.condition = T_heart /\ fh_req.location = T_Chennai
    /\ Len(matched.hospitals) = 7
    /\ matched.hospitals[1].id = 2
    /\ matched.hospitals[2].id = 9
    /\ matched.hospitals[5].id = 3 /\ matched.hospitals[6].id = 10

(***************************************************************************)
(* The cost of one search.                                                 *)
(***************************************************************************)

\* What is left of a search: it falls with every step the search takes.
SearchMeasure ==
    CASE hc_pc = "idle" -> 12 + Len(search_radii(10)) * NumQueries
      [] hc_pc = "bbox" -> 10 + Len(search_radii(10)) * NumQueries - calls.bbox
      [] hc_pc = "reverse" -> 9
      [] hc_pc = "city" -> 8
      [] hc_pc = "state" -> 7
      [] hc_pc = "rank" -> 6
      [] hc_pc = "returned" -> 5
      [] OTHER -> 0

\* C21: the radii are tried in strictly increasing order, and no further
\* radius is started once the result count has reached max_results or has
\* reached 5 at a radius of at most 0.1 degrees; a search issues at most
\* 4 radii of 6 category queries (24 calls) and at most 3 locality-stage
\* calls, and every step brings it nearer to its end.
C21_BoundedSearch ==
    [][/\ radius_idx' # radius_idx =>
            LET radii == search_radii(hc_req'.max_distance) IN
            /\ radius_idx' = radius_idx + 1
            /\ radii[radius_idx'] > radii[radius_idx]
            /\ Len(all_results') < hc_req'.max_results
            /\ ~(Len(all_results') >= 5 /\ radii[radius_idx] <= 10)
       /\ query_idx' <= NumQueries
       /\ calls'.bbox <= radius_idx' * NumQueries
       /\ calls'.bbox <= 4 * NumQueries
       /\ calls'.reverse + calls'.city + calls'.state <= 3
       /\ SearchMeasure' < SearchMeasure
       /\ SearchMeasure' >= 0]_vars

\* The loop was left after its first radius with 5 results or more, short
\* of max_results.
C21_Witness ==
    /\ hc_pc = "rank"
    /\ calls.bbox = NumQueries
    /\ Len(all_results) >= 5
    /\ Len(all_results) < hc_req.max_results

\* All 24 category queries and all 3 locality-stage calls were issued.
C21_WitnessFull ==
    /\ calls.bbox = 4 * NumQueries
    /\ calls.reverse + calls.city + calls.state = 3

(***************************************************************************)
(* The category of a ranked facility.                                      *)
(***************************************************************************)

Categories == {"hospital", "clinic", "doctor", "pharmacy", "emergency", "medical"}

\* The category the provider tags of a place name, "" when they name none.
TagCategory(place) ==
    IF place.amenity = "hospital" THEN "hospital"
    ELSE IF place.amenity = "clinic" THEN "clinic"
    ELSE IF place.amenity = "doctors" THEN "doctor"
    ELSE IF place.amenity = "pharmacy" THEN "pharmacy"
    ELSE IF Contains(Lower(place.type), W_emergency) THEN "emergency"
    ELSE ""

\* The categories whose word occurs in the name of a place.
NameCategories(place) ==
    LET name == Lower(facility_name_of(place)) IN
    {c \in Categories :
        \/ c = "hospital" /\ Contains(name, W_hospital)
        \/ c = "clinic" /\ Contains(name, W_clinic)
        \/ c = "doctor" /\ Contains(name, W_doctor)
        \/ c = "pharmacy" /\ Contains(name, W_pharmacy)
        \/ c = "emergency" /\ Contains(name, W_emergency)}

\* C22: the category of every ranked facility is one of hospital, clinic,
\* doctor, pharmacy, emergency, medical, and the provider tags decide it
\* first: a facility whose tags name a category has that category whatever
\* its name is, the name is used only when the tags name none, and medical
\* is used when neither gives a signal.
C22_TagsDecideCategory ==
    ListReturned =>
        \A i \in 1..Len(hc_ret.items) :
            LET item == hc_ret.items[i]
                place == all_results[Discovery(item)]
            IN /\ item.type \in Categories
               /\ TagCategory(place) # "" => item.type = TagCategory(place)
               /\ TagCategory(place) = "" /\ NameCategories(place) # {} =>
                      item.type \in NameCategories(place)
               /\ TagCategory(place) = "" /\ NameCategories(place) = {} =>
                      item.type = "medical"

(***************************************************************************)
(* The answers of /health-centers to a search that returned a list.        *)
(***************************************************************************)

\* The answer is 404 with the suggestion to search beyond max_distance km.
ExpandRadiusSuggested ==
    /\ hc_resp.code = 404
    /\ hc_resp.error = "No health centers found nearby"
    /\ hc_resp.radius = <<hc_req.max_distance>>

\* A success carries a non-empty list and the route asked for runs from the
\* origin to the first element of the list.
SuccessHasNearest ==
    hc_pc = "done" /\ hc_resp.code = 200 =>
        /\ hc_resp.centers # <<>>
        /\ hc_resp.route.start = Origin
        /\ hc_resp.route.end = <<hc_resp.centers[1].latitude,
                                 hc_resp.centers[1].longitude>>
        /\ \A i \in 1..Len(hc_resp.centers) :
               hc_resp.centers[1].distance <= hc_resp.centers[i].distance

\* The search found candidates and none of them is within max_distance.
NoneSurvives ==
    /\ all_results # <<>>
    /\ \A i \in 1..Len(all_results) :
         WellFormed(all_results[i]) =>
             ~InRange(all_results[i].lat[1], all_results[i].lon[1])

\* The search returned an empty list.
EmptyListReturned == ListReturned /\ hc_ret.items = <<>>

\* C30 as stated: HealthCenters never answers with success and an empty
\* list, the route of a success runs from the origin to the first (nearest)
\* element, and a search that found candidates none of which survived the
\* max_distance filter returned an empty list without attempting the
\* locality stage and is answered not-found with the expand-radius
\* suggestion.
C30_EmptyListNoLocality ==
    /\ SuccessHasNearest
    /\ SearchOver /\ hc_pc # "rank" /\ NoneSurvives =>
          /\ EmptyListReturned
          /\ calls.reverse = 0
          /\ hc_pc = "done" => ExpandRadiusSuggested

\* C30, amended: the locality stage is not attempted when the candidates
\* come from the bounding-box stage; candidates that the locality stage
\* found and the filter dropped give the same empty list and the same
\* not-found answer.
C30_EmptyListNotFound ==
    /\ SuccessHasNearest
    /\ SearchOver /\ hc_pc # "rank" /\ NoneSurvives =>
          /\ EmptyListReturned
          /\ calls.bbox_found > 0 => calls.reverse = 0
          /\ hc_pc = "done" => ExpandRadiusSuggested

\* The bounding-box stage found candidates, the filter dropped them all and
\* the endpoint answered not-found with the suggestion.
C30_Witness ==
    /\ hc_pc = "done" /\ hc_resp.code = 404
    /\ calls.bbox_found > 0 /\ calls.reverse = 0
    /\ hc_ret.kind = "list" /\ hc_ret.items = <<>>

(***************************************************************************)
(* Coordinates on the equator or on the prime meridian.                    *)
(***************************************************************************)

\* The /health-centers request carries a latitude in [-90, 90] and a
\* longitude in [-180, 180].
CoordinatesInRange ==
    /\ hc_req.latitude # NoNumber /\ hc_req.longitude # NoNumber
    /\ -9000000 <= hc_req.latitude[1] /\ hc_req.latitude[1] <= 9000000
    /\ -18000000 <= hc_req.longitude[1] /\ hc_req.longitude[1] <= 18000000

\* C29: every coordinate pair with latitude in [-90, 90] and longitude in
\* [-180, 180], latitude 0 and longitude 0 included, is treated as supplied
\* coordinates: HealthCenters proceeds to the search and does not answer
\* that latitude and longitude are required.  (The same holds of
\* FindHospitals, whose use of supplied coordinates is C13's subject.)
C29_ZeroIsSupplied ==
    hc_pc = "done" /\ CoordinatesInRange =>
        /\ hc_resp.code # 400
        /\ calls.bbox > 0

(***************************************************************************)
(* The pauses between the provider calls of one search.                    *)
(***************************************************************************)

\* The provider calls the search has made: bounding-box queries, the reverse
\* geocode and the name searches.
ProviderCalls == calls.bbox + calls.reverse + calls.city + calls.state

\* C23: within one health-center search every two consecutive provider
\* calls are separated by a delay: whatever the outcome of a provider call
\* was, the search has paused before it issues the next one.
C23_PauseBetweenCalls ==
    [][ProviderCalls' > ProviderCalls /\ ProviderCalls > 0 => pause > 0]_vars

(***************************************************************************)
(* The location-substring fallback of /hospitals.                          *)
(***************************************************************************)

\* The test of the fallback loop on a directory entry.
FallbackTest(hospital) ==
    \/ Contains(Lower(hospital.location), Lower(fh_req.location))
    \/ Contains(Lower(hospital.state), Lower(fh_req.location))

\* The fallback has been consulted.
FallbackReached ==
    \E i \in 1..Len(fh_sources) : fh_sources[i].source = "fallback"

\* C28: the location-substring fallback over the static directory never
\* produces a hospital when it is reached: the matcher returned an empty
\* list, no directory entry satisfies the location test of the fallback,
\* the fallback found nothing, and control went on to the nearby search or
\* to not-found.
C28_FallbackFindsNothing ==
    FallbackReached =>
        /\ matched.hospitals = <<>>
        /\ \A k \in 1..Len(HOSPITAL_DATABASE) : ~FallbackTest(HOSPITAL_DATABASE[k])
        /\ \A i \in 1..Len(fh_sources) :
               fh_sources[i].source = "fallback" => fh_sources[i].found = 0
        /\ \/ fh_pc = "nearby"
           \/ fh_pc = "done" /\ fh_resp = NotFound404
           \/ /\ fh_pc \in {"store", "done"}
              /\ fh_sources[Len(fh_sources)].source = "nearby"
              /\ fh_result.fromNearbySearch /\ ~fh_result.fallback

\* The fallback was reached, found nothing, and the nearby search is next.
C28_Witness ==
    /\ fh_pc = "nearby"
    /\ Len(fh_sources) = 2
    /\ fh_sources[2] = Consulted("fallback", 0)

(***************************************************************************)
(* What the handlers write to the cache.                                   *)
(***************************************************************************)

\* The step ends the request of p with a validation error, the canned
\* refusal, a redirect hint, not-found or the internal error.
EndsWithoutResult(p) ==
    /\ pc[p] # "done" /\ pc'[p] = "done"
    /\ resp'[p].tag \in {"error", "refusal", "redirect"}

\* The step is the cache read of p and at most evicts the key p looked up.
LazyEviction(p) ==
    /\ pc[p] = "lookup"
    /\ cache' = DictDel(cache, cache_key[p])

\* The step is the set_cache of p, made with the result p computed.
StoreOfResult(p) ==
    /\ pc[p] = "store" /\ pc'[p] = "done"
    /\ result[p] \in Values
    /\ resp'[p] = Response(200, "result", result[p])
    /\ DOMAIN cache' = DOMAIN cache \cup {cache_key[p]}
    /\ cache'[cache_key[p]][1] = result[p]
    /\ \A k \in DOMAIN cache \ {cache_key[p]} : cache'[k] = cache[k]

\* C27: a cache entry is written only after a successful computation: a
\* step that ends a request with a validation error, the canned refusal, a
\* redirect hint, not-found or an internal error leaves the cache as it
\* is, and the cache changes only by the lazy eviction of the key a handler
\* looked up or by the store of a computed result.
C27_StoreOnlyAfterSuccess ==
    [][/\ \A p \in Procs : EndsWithoutResult(p) =>
              cache' = cache /\ lastPut' = lastPut
       /\ cache' # cache =>
              \E p \in Procs : LazyEviction(p) \/ StoreOfResult(p)]_vars

\* A request ended with a redirect hint after its cache read missed, while
\* the cache holds the result of another request and nothing under its key.
C27_Witness ==
    \E p \in Procs :
      /\ pc[p] = "done"
      /\ resp[p].tag = "redirect"
      /\ cache # <<>>
      /\ cache_key[p] \notin DOMAIN cache

(***************************************************************************)
(* The cache key of /hospitals.                                            *)
(***************************************************************************)

\* C26: two FindHospitals requests that differ in condition, location,
\* specialty, latitude or longitude never share a cache key: the entry
\* under the key of a request that was answered 200 was computed for the
\* very parameter tuple of that request, so a cached response is only
\* returned for the tuple it was computed for.
C26_KeyPerTuple ==
    fh_pc = "done" /\ fh_resp.code = 200 =>
        /\ fh_key \in DOMAIN lastPut
        /\ lastPut[fh_key].request = fh_req

(***************************************************************************)
(* Concurrent reads of one cache key.                                      *)
(***************************************************************************)

\* C24: for any interleaving of concurrent requests that read the same
\* expired key, every read completes without an error: the membership
\* test, the entry read and the delete of get_from_cache and of the
\* realtime-news check never fail because another request removed the
\* entry in between, so no request is answered with the KeyError.
C24_ReadsNeverFail ==
    \A p \in Procs :
        pc[p] = "done" => ~(resp[p].tag = "error" /\ resp[p].body = "KeyError")

\* C25: lazy eviction never removes a fresh entry: for any interleaving, the
\* value of the latest set_cache under a key stays in the dict, with its
\* timestamp, until its own duration has elapsed.
C25_FreshEntryKept ==
    \A k \in DOMAIN lastPut :
        now - lastPut[k].timestamp < Lifetime(lastPut[k].kind) =>
            /\ k \in DOMAIN cache
            /\ cache[k] = <<lastPut[k].item, lastPut[k].timestamp>>

====
